---- MODULE Spec2Model ----
(***************************************************************************)
(* Model of the document / translation-unit cache of the clang backend     *)
(* (src/tools/clangbackend/ipcsource/clangdocument.cpp).                    *)
(*                                                                         *)
(* A Document is a handle (std::shared_ptr<DocumentData> d) on a backing   *)
(* state DocumentData.  The backing states live in `store`, the handles a  *)
(* caller holds in `handles`, the handles the Documents collection holds   *)
(* in `documents`.  Time is the value of std::chrono::steady_clock::now(). *)
(***************************************************************************)
EXTENDS Integers, FiniteSets, Sequences, TLC

\* ---------------------------------------------------------------- bounds
\* Largest value the steady clock reaches (it starts at 1; 0 is the
\* default-constructed time_point of a result that sets no time).
MaxTime == 2
\* Largest document revision the editor sends (revisions are unsigned and
\* start at 0).
MaxRevision == 1

\* ------------------------------------------------------------- universes
MainFile == "/a.cpp"
ProjectPartId == "P1"
\* The project parts a file is parsed under: the one above and a second one.
ProjectPartIds == {"P1", "P2"}
\* Files a translation unit can depend on.
Paths == {"/a.cpp", "/a.h", "/b.h"}
\* Dependency sets the updater can report: the file itself and the files it
\* includes.
DepSets == {deps \in SUBSET Paths : MainFile \in deps}
\* The handles on Documents held outside the collection: the one of the
\* owning service and the one of a job it has started.
Handles == {"h1", "h2"}
OwnerHandles == {"h1"}
\* Slots for DocumentData objects: every handle can keep one alive, and the
\* collection one for every project part.
ObjIds == 1..(Cardinality(Handles) + Cardinality(ProjectPartIds))
\* The null handle (a shared_ptr holding nothing).
NullDoc == 0
Times == 0..MaxTime
Revisions == 0..MaxRevision

VARIABLES
    now,                \* steady_clock::now()
    disk,               \* the files that exist (QFileInfo::exists)
    projectPartChange,  \* d->projectPart.lastChangeTimePoint()
    store,              \* ObjIds -> DocumentData (or NoData)
    documents,          \* the objects the Documents collection holds
    watchedFiles,       \* the Documents collection's watched file paths
    unsavedFiles,       \* the Documents collection's unsavedFiles(): the files with unsaved content
    handles,            \* Handles -> ObjIds \cup {NullDoc}
    inflight,           \* ObjIds -> the update input built and not yet incorporated
    markedSinceBuilt,   \* ObjIds -> setDirty ran since the in-flight input was built
    last                \* the last call on a Document: what, on what, with what outcome

\* The generic highlighter's Manager (texteditor/generichighlighter/manager.cpp)
VARIABLES
    passes,                 \* the ManagerProcessor::process runs started: their futures
    registeringWatcher,     \* the future m_registeringWatcher watches (0: none yet)
    finishedPosted,         \* the watcher's finished() is posted and not yet delivered
    hasQueuedRegistration,  \* m_hasQueuedRegistration
    register,               \* m_register: the pass whose result it holds (0: cleared)
    mimeTypesRegistered,    \* the passes mimeTypesRegistered() was emitted for, in order
    requests                \* registerMimeTypes() calls made from outside, and
                            \* how many passes had been started before the last

\* ManagerProcessor::process (texteditor/generichighlighter/manager.cpp)
VARIABLES
    definitionsPaths,   \* m_definitionsPaths with the definition files found there
    knownMimeTypes,     \* m_knownMimeTypes when the pass starts
    processed           \* what the pass did: the order it considered the
                        \* definitions in and the result it reported

\* The ProjectImporter and the KitManager's kits (projectexplorer/projectimporter.cpp)
VARIABLES
    kits,           \* KitIds -> the Kit object: created, registered with the
                    \* KitManager, its display name and its key/value map
    importers,      \* the ProjectImporter objects alive
    temporaryHandlers,  \* m_temporaryHandlers of each importer: the ids, in order
    lastKitCall     \* the last call made: what, by which importer, on which kit

\* The MultiDefinitionDownloader (texteditor/generichighlighter/manager.cpp)
VARIABLES
    multiDownloader,        \* m_multiDownloader: none yet, downloading, or deleted
                            \* again, with the definitions installed when it was made
    installedDefinitions,   \* m_installedDefinitions
    referencedDefinitions,  \* m_referencedDefinitions
    downloaders,            \* m_downloaders: the definitions of the round under way
    messageBox,             \* the download error dialog, while it is open
    scheduled,              \* the definitions each downloadDefinitions call was given
    finishedEmitted         \* how often finished() was emitted

\* The OutputTabWidget (scxmleditor/outputpane/outputtabwidget.cpp)
VARIABLES
    pages,          \* m_pages.count(): pane i has button i
    checked,        \* isChecked() of each button
    animator,       \* each button's animator (running or stopped) and m_animCounter
    currentPane,    \* m_stackedWidget->currentIndex() + 1 (0: no widget)
    stackedHidden,  \* the stacked widget was hidden with setVisible(false)
    windowVisible,  \* the OutputTabWidget itself is visible on screen
    shownByCall,    \* showPane was called on a pane other than by a button click
    lastPaneCall    \* the last handler that ran, and the signals it emitted

documentVars == <<now, disk, projectPartChange, store, documents, watchedFiles,
                  unsavedFiles, handles, inflight, markedSinceBuilt, last>>

registrationVars == <<passes, registeringWatcher, finishedPosted,
                      hasQueuedRegistration, register, mimeTypesRegistered,
                      requests>>

processorVars == <<definitionsPaths, knownMimeTypes, processed>>

importerVars == <<kits, importers, temporaryHandlers, lastKitCall>>

outputVars == <<pages, checked, animator, currentPane, stackedHidden, windowVisible,
                shownByCall, lastPaneCall>>

downloaderVars == <<multiDownloader, installedDefinitions, referencedDefinitions,
                    downloaders, messageBox, scheduled, finishedEmitted>>

\* Everything outside the document cache.
pluginVars == <<registrationVars, processorVars, importerVars, downloaderVars, outputVars>>

\* Everything outside the Manager's registration.
besideRegistration == <<documentVars, processorVars, importerVars, downloaderVars, outputVars>>

\* Everything outside a pass of the ManagerProcessor.
besideProcessor == <<documentVars, registrationVars, importerVars, downloaderVars, outputVars>>

\* Everything outside the ProjectImporters and the kits.
besideImporter == <<documentVars, registrationVars, processorVars, downloaderVars, outputVars>>

\* Everything outside the MultiDefinitionDownloader.
besideDownloader == <<documentVars, registrationVars, processorVars, importerVars, outputVars>>

\* Everything outside the OutputTabWidget.
besideOutput == <<documentVars, registrationVars, processorVars, importerVars, downloaderVars>>

vars == <<documentVars, pluginVars>>

\* --------------------------------------------------------- DocumentData
\* The state of a slot of `store` that holds no object.
NoData ==
    [live |-> FALSE,
     filePath |-> "",
     projectPartId |-> "",
     lastProjectPartChangeTimePoint |-> 0,
     dependedFilePaths |-> {},
     documentRevision |-> 0,
     needsToBeReparsedChangeTimePoint |-> 0,
     hasParseOrReparseFailed |-> FALSE,
     needsToBeReparsed |-> FALSE,
     isUsedByCurrentEditor |-> FALSE,
     isVisibleInEditor |-> FALSE]

\* A DocumentData that starts out needing a reparse and with no dependencies.
NewDocumentDataDirty(filePath, projectPartId, t) ==
    [live |-> TRUE,
     filePath |-> filePath,
     projectPartId |-> projectPartId,
     lastProjectPartChangeTimePoint |-> t,
     dependedFilePaths |-> {},
     documentRevision |-> 0,
     needsToBeReparsedChangeTimePoint |-> 0,
     hasParseOrReparseFailed |-> FALSE,
     needsToBeReparsed |-> TRUE,
     isUsedByCurrentEditor |-> FALSE,
     isVisibleInEditor |-> FALSE]

\* A DocumentData that starts out depending on no file, its own included.
NewDocumentDataWithoutDependencies(filePath, projectPartId, t) ==
    [live |-> TRUE,
     filePath |-> filePath,
     projectPartId |-> projectPartId,
     lastProjectPartChangeTimePoint |-> t,
     dependedFilePaths |-> {},
     documentRevision |-> 0,
     needsToBeReparsedChangeTimePoint |-> t,
     hasParseOrReparseFailed |-> FALSE,
     needsToBeReparsed |-> FALSE,
     isUsedByCurrentEditor |-> FALSE,
     isVisibleInEditor |-> FALSE]

\* DocumentData::DocumentData: both time points are the one clock reading,
\* the dependencies are the file itself, the members keep their initializers.
NewDocumentData(filePath, projectPartId, t) ==
    [live |-> TRUE,
     filePath |-> filePath,
     projectPartId |-> projectPartId,
     lastProjectPartChangeTimePoint |-> t,
     dependedFilePaths |-> {filePath},
     documentRevision |-> 0,
     needsToBeReparsedChangeTimePoint |-> t,
     hasParseOrReparseFailed |-> FALSE,
     needsToBeReparsed |-> FALSE,
     isUsedByCurrentEditor |-> FALSE,
     isVisibleInEditor |-> FALSE]

\* ------------------------------------------------ update input / result
NoInput ==
    [built |-> FALSE,
     parseNeeded |-> FALSE,
     reparseNeeded |-> FALSE,
     needsToBeReparsedChangeTimePoint |-> 0,
     unsavedFiles |-> {},
     builtAt |-> 0]

NoResult ==
    [hasParseOrReparseFailed |-> FALSE,
     parseTimePointIsSet |-> FALSE,
     parseTimePoint |-> 0,
     reparsed |-> FALSE,
     needsToBeReparsedChangeTimePoint |-> 0,
     dependedOnFilePaths |-> {}]

\* ------------------------------------------------------- pure queries
\* Document::isNull
IsNull(h) == handles[h] = NullDoc

Data(h) == store[handles[h]]

\* QFileInfo::exists(d->filePath)
FileExistsOf(data) == data.filePath \in disk

\* isIntact without the look at the disk.
IsIntactIgnoringFile(h) ==
    /\ ~IsNull(h)
    /\ ~Data(h).hasParseOrReparseFailed

\* Document::isIntact: the null check comes first and short-circuits.
IsIntact(h) ==
    /\ ~IsNull(h)
    /\ FileExistsOf(Data(h))
    /\ ~Data(h).hasParseOrReparseFailed

\* isProjectPartOutdated with the equal time points taken for up to date.
IsProjectPartOutdatedStrictly(data) ==
    projectPartChange > data.lastProjectPartChangeTimePoint

\* Document::isProjectPartOutdated, past its null check.
IsProjectPartOutdatedOf(data) ==
    projectPartChange >= data.lastProjectPartChangeTimePoint

\* isMainFileAndExistsOrIsOtherFile without the look at the disk.
AnyFileCounts(data, filePath) == TRUE

\* Document::isMainFileAndExistsOrIsOtherFile
IsMainFileAndExistsOrIsOtherFile(data, filePath) ==
    IF filePath = data.filePath THEN data.filePath \in disk ELSE TRUE

\* setDirty that refreshes the time point and forgets the flag.
SetDirtyKeepingFlag(data, t) ==
    [data EXCEPT !.needsToBeReparsedChangeTimePoint = t]

\* setDirty that also forgets a failed parse.
SetDirtyClearingFailure(data, t) ==
    [data EXCEPT !.needsToBeReparsedChangeTimePoint = t,
                 !.needsToBeReparsed = TRUE,
                 !.hasParseOrReparseFailed = FALSE]

\* Document::setDirty
SetDirtyOf(data, t) ==
    [data EXCEPT !.needsToBeReparsedChangeTimePoint = t,
                 !.needsToBeReparsed = TRUE]

\* Document::setDirtyIfProjectPartIsOutdated, past the null check
SetDirtyIfProjectPartIsOutdatedOf(data, t) ==
    IF IsProjectPartOutdatedOf(data) THEN SetDirtyOf(data, t) ELSE data

\* A setDocumentRevision that never lowers the stored revision.
SetDocumentRevisionNeverLowering(data, revision) ==
    [data EXCEPT !.documentRevision =
                     IF revision > @ THEN revision ELSE @]

\* Document::setDocumentRevision: a plain assignment.
SetDocumentRevisionOf(data, revision) ==
    [data EXCEPT !.documentRevision = revision]

\* Document::setIsUsedByCurrentEditor
SetIsUsedByCurrentEditorOf(data, isUsedByCurrentEditor) ==
    [data EXCEPT !.isUsedByCurrentEditor = isUsedByCurrentEditor]

\* Document::setIsVisibleInEditor
SetIsVisibleInEditorOf(data, isVisibleInEditor) ==
    [data EXCEPT !.isVisibleInEditor = isVisibleInEditor]

\* Document::setHasParseOrReparseFailed
SetHasParseOrReparseFailedOf(data, hasFailed) ==
    [data EXCEPT !.hasParseOrReparseFailed = hasFailed]

\* An equality that also compares the time points of the last marking.
EqualsComparingTimePoint(first, second) ==
    /\ first.filePath = second.filePath
    /\ first.projectPartId = second.projectPartId
    /\ first.needsToBeReparsedChangeTimePoint = second.needsToBeReparsedChangeTimePoint

\* operator==(const Document &, const Document &), past the null checks of
\* filePath() and projectPartId()
EqualsOf(first, second) ==
    /\ first.filePath = second.filePath
    /\ first.projectPartId = second.projectPartId

\* The condition without the look into the dependencies.
DependencyIsMetIgnoringSet(data, filePath) ==
    IsMainFileAndExistsOrIsOtherFile(data, filePath)

\* The condition of Document::setDirtyIfDependencyIsMet
DependencyIsMet(data, filePath) ==
    /\ filePath \in data.dependedFilePaths
    /\ IsMainFileAndExistsOrIsOtherFile(data, filePath)

\* Document::setDirtyIfDependencyIsMet, on a non-null Document
SetDirtyIfDependencyIsMetOf(data, filePath, t) ==
    IF DependencyIsMet(data, filePath) THEN SetDirtyOf(data, t) ELSE data

\* createUpdateInput that stamps the input with the clock in place of the
\* Document's reparse time point.
CreateUpdateInputStampedNow(data, t) ==
    [built |-> TRUE,
     parseNeeded |-> IsProjectPartOutdatedOf(data),
     reparseNeeded |-> data.needsToBeReparsed,
     needsToBeReparsedChangeTimePoint |-> t,
     unsavedFiles |-> unsavedFiles,
     builtAt |-> t]

\* Document::createUpdateInput (the fields the staleness logic reads, and
\* the unsaved files as the collection has them when the input is built)
CreateUpdateInputOf(data, t) ==
    [built |-> TRUE,
     parseNeeded |-> IsProjectPartOutdatedOf(data),
     reparseNeeded |-> data.needsToBeReparsed,
     needsToBeReparsedChangeTimePoint |-> data.needsToBeReparsedChangeTimePoint,
     unsavedFiles |-> unsavedFiles,
     builtAt |-> t]

\* incorporateUpdaterResult as a plain boolean would do it: a reparse clears
\* the flag whatever time point the result carries.
IncorporateIgnoringTimePoint(data, result) ==
    IF result.hasParseOrReparseFailed
    THEN [data EXCEPT !.hasParseOrReparseFailed = TRUE,
                      !.needsToBeReparsed = FALSE]
    ELSE [data EXCEPT
            !.hasParseOrReparseFailed = FALSE,
            !.lastProjectPartChangeTimePoint =
                IF result.parseTimePointIsSet THEN result.parseTimePoint ELSE @,
            !.dependedFilePaths =
                IF result.parseTimePointIsSet \/ result.reparsed
                THEN result.dependedOnFilePaths ELSE @,
            !.needsToBeReparsed = IF result.reparsed THEN FALSE ELSE @]

\* incorporateUpdaterResult that leaves the flag alone on a failed result.
IncorporateKeepingDirtyOnFailure(data, result) ==
    IF result.hasParseOrReparseFailed
    THEN [data EXCEPT !.hasParseOrReparseFailed = TRUE]
    ELSE [data EXCEPT
            !.hasParseOrReparseFailed = FALSE,
            !.lastProjectPartChangeTimePoint =
                IF result.parseTimePointIsSet THEN result.parseTimePoint ELSE @,
            !.dependedFilePaths =
                IF result.parseTimePointIsSet \/ result.reparsed
                THEN result.dependedOnFilePaths ELSE @,
            !.needsToBeReparsed =
                IF /\ result.reparsed
                   /\ result.needsToBeReparsedChangeTimePoint =
                          data.needsToBeReparsedChangeTimePoint
                THEN FALSE ELSE @]

\* incorporateUpdaterResult that returns for a failed result only after it
\* has taken the time point and the dependencies of the result.
IncorporateAdoptingFailedResult(data, result) ==
    LET d1 == [data EXCEPT !.hasParseOrReparseFailed = result.hasParseOrReparseFailed]
        d2 == IF result.parseTimePointIsSet
              THEN [d1 EXCEPT !.lastProjectPartChangeTimePoint =
                                  result.parseTimePoint]
              ELSE d1
        d3 == IF result.parseTimePointIsSet \/ result.reparsed
              THEN [d2 EXCEPT !.dependedFilePaths = result.dependedOnFilePaths]
              ELSE d2
    IN  IF result.hasParseOrReparseFailed
        THEN [d3 EXCEPT !.needsToBeReparsed = FALSE]
        ELSE IF /\ result.reparsed
                /\ result.needsToBeReparsedChangeTimePoint =
                       d3.needsToBeReparsedChangeTimePoint
             THEN [d3 EXCEPT !.needsToBeReparsed = FALSE]
             ELSE d3

\* incorporateUpdaterResult that takes the dependencies of every result
\* that did not fail.
IncorporateReplacingAlways(data, result) ==
    IF result.hasParseOrReparseFailed
    THEN [data EXCEPT !.hasParseOrReparseFailed = TRUE,
                      !.needsToBeReparsed = FALSE]
    ELSE [data EXCEPT
            !.hasParseOrReparseFailed = FALSE,
            !.lastProjectPartChangeTimePoint =
                IF result.parseTimePointIsSet THEN result.parseTimePoint ELSE @,
            !.dependedFilePaths = result.dependedOnFilePaths,
            !.needsToBeReparsed =
                IF /\ result.reparsed
                   /\ result.needsToBeReparsedChangeTimePoint =
                          data.needsToBeReparsedChangeTimePoint
                THEN FALSE ELSE @]

\* incorporateUpdaterResult that never takes the parse time point.
IncorporateKeepingSyncTimePoint(data, result) ==
    IF result.hasParseOrReparseFailed
    THEN [data EXCEPT !.hasParseOrReparseFailed = TRUE,
                      !.needsToBeReparsed = FALSE]
    ELSE [data EXCEPT
            !.hasParseOrReparseFailed = FALSE,
            !.dependedFilePaths =
                IF result.parseTimePointIsSet \/ result.reparsed
                THEN result.dependedOnFilePaths ELSE @,
            !.needsToBeReparsed =
                IF /\ result.reparsed
                   /\ result.needsToBeReparsedChangeTimePoint =
                          data.needsToBeReparsedChangeTimePoint
                THEN FALSE ELSE @]

\* incorporateUpdaterResult that takes over the time point of the result.
IncorporateAdoptingTimePoint(data, result) ==
    IF result.hasParseOrReparseFailed
    THEN [data EXCEPT !.hasParseOrReparseFailed = TRUE,
                      !.needsToBeReparsed = FALSE]
    ELSE [data EXCEPT
            !.hasParseOrReparseFailed = FALSE,
            !.lastProjectPartChangeTimePoint =
                IF result.parseTimePointIsSet THEN result.parseTimePoint ELSE @,
            !.dependedFilePaths =
                IF result.parseTimePointIsSet \/ result.reparsed
                THEN result.dependedOnFilePaths ELSE @,
            !.needsToBeReparsed =
                IF result.reparsed THEN FALSE ELSE @,
            !.needsToBeReparsedChangeTimePoint =
                result.needsToBeReparsedChangeTimePoint]

\* incorporateUpdaterResult that never clears needsToBeReparsed on a result
\* that did not fail.
IncorporateNeverClearing(data, result) ==
    IF result.hasParseOrReparseFailed
    THEN [data EXCEPT !.hasParseOrReparseFailed = TRUE,
                      !.needsToBeReparsed = FALSE]
    ELSE [data EXCEPT
            !.hasParseOrReparseFailed = FALSE,
            !.lastProjectPartChangeTimePoint =
                IF result.parseTimePointIsSet THEN result.parseTimePoint ELSE @,
            !.dependedFilePaths =
                IF result.parseTimePointIsSet \/ result.reparsed
                THEN result.dependedOnFilePaths ELSE @]

\* incorporateUpdaterResult that clears the flag on every result that did not fail.
IncorporateClearingOnSuccess(data, result) ==
    IF result.hasParseOrReparseFailed
    THEN [data EXCEPT !.hasParseOrReparseFailed = TRUE,
                      !.needsToBeReparsed = FALSE]
    ELSE [data EXCEPT
            !.hasParseOrReparseFailed = FALSE,
            !.lastProjectPartChangeTimePoint =
                IF result.parseTimePointIsSet THEN result.parseTimePoint ELSE @,
            !.dependedFilePaths =
                IF result.parseTimePointIsSet \/ result.reparsed
                THEN result.dependedOnFilePaths ELSE @,
            !.needsToBeReparsed = FALSE]

\* Document::incorporateUpdaterResult, the DocumentData it leaves
IncorporateUpdaterResultOf(data, result) ==
    IF result.hasParseOrReparseFailed
    THEN [data EXCEPT !.hasParseOrReparseFailed = TRUE,
                      !.needsToBeReparsed = FALSE]
    ELSE LET d1 == [data EXCEPT !.hasParseOrReparseFailed = FALSE]
             d2 == IF result.parseTimePointIsSet
                   THEN [d1 EXCEPT !.lastProjectPartChangeTimePoint =
                                       result.parseTimePoint]
                   ELSE d1
             d3 == IF result.parseTimePointIsSet \/ result.reparsed
                   THEN [d2 EXCEPT !.dependedFilePaths =
                                       result.dependedOnFilePaths]
                   ELSE d2
         IN  IF /\ result.reparsed
                /\ result.needsToBeReparsedChangeTimePoint =
                       d3.needsToBeReparsedChangeTimePoint
             THEN [d3 EXCEPT !.needsToBeReparsed = FALSE]
             ELSE d3

\* Documents::addWatchedFiles: the union with the watched files so far.
AddWatchedFiles(watched, filePaths) == watched \cup filePaths

\* incorporateUpdaterResult that watches the new dependencies in place of
\* the files watched so far.
WatchedReplacedByResult(watched, data, result) ==
    IF result.hasParseOrReparseFailed
    THEN watched
    ELSE IncorporateUpdaterResultOf(data, result).dependedFilePaths

\* incorporateUpdaterResult that registers the dependencies only when the
\* result replaced them.
WatchedOnlyWhenReplaced(watched, data, result) ==
    IF result.hasParseOrReparseFailed \/ ~(result.parseTimePointIsSet \/ result.reparsed)
    THEN watched
    ELSE AddWatchedFiles(watched, result.dependedOnFilePaths)

\* incorporateUpdaterResult without the registration of the dependencies.
WatchedNotRegistered(watched, data, result) == watched

\* Document::incorporateUpdaterResult, the watched files it leaves: a failed
\* result returns before the registration.
WatchedAfterIncorporate(watched, data, result) ==
    IF result.hasParseOrReparseFailed
    THEN watched
    ELSE AddWatchedFiles(watched,
                         IncorporateUpdaterResultOf(data, result).dependedFilePaths)

\* The results the translation-unit updater can hand back for an input built
\* at input.builtAt and run no later than t.
UpdaterResults(input, t) ==
    { r \in [hasParseOrReparseFailed : BOOLEAN,
             parseTimePointIsSet : BOOLEAN,
             parseTimePoint : Times,
             reparsed : BOOLEAN,
             needsToBeReparsedChangeTimePoint : Times,
             dependedOnFilePaths : DepSets \cup {{}}] :
        /\ IF r.parseTimePointIsSet
           THEN r.parseTimePoint \in input.builtAt..t
           ELSE r.parseTimePoint = 0
        /\ r.hasParseOrReparseFailed => ~r.reparsed
        /\ IF r.reparsed
           THEN r.needsToBeReparsedChangeTimePoint =
                    input.needsToBeReparsedChangeTimePoint
           ELSE r.needsToBeReparsedChangeTimePoint = 0
        /\ IF r.parseTimePointIsSet \/ r.reparsed
           THEN r.dependedOnFilePaths \in DepSets
           ELSE r.dependedOnFilePaths = {} }

\* ------------------------------------------------------------ outcomes
\* What a call can end with.  Dereferencing the empty shared_ptr d is
\* undefined behaviour: the build either faults or carries on.
UBOutcomes == {"crash", "ok"}

\* The record of a step that is no call on a Document.
Step(op) ==
    [op |-> op, handle |-> "", wasNull |-> FALSE, path |-> "",
     projectPartId |-> "", check |-> FALSE,
     revision |-> 0, revisionBefore |-> 0,
     result |-> NoResult, outcome |-> "ok"]

\* The record of a call of `op` through handle h.
Call(op, h, path, result, outcome) ==
    [op |-> op, handle |-> h, wasNull |-> IsNull(h), path |-> path,
     projectPartId |-> "", check |-> FALSE,
     revision |-> 0, revisionBefore |-> 0,
     result |-> result, outcome |-> outcome]

\* A process that faulted runs no further call.
Running == last.outcome # "crash"

\* std::shared_ptr: a DocumentData no handle refers to is destroyed, and the
\* update input built for it is dropped with the job that held it.
Referenced(o, docs, hs) == o \in docs \/ \E h \in Handles : hs[h] = o

\* A collection that destroys the DocumentData it drops whatever handle
\* still refers to it.
CollectDropped(st, docs, hs) ==
    [o \in ObjIds |-> IF o \in docs THEN st[o] ELSE NoData]

Collect(st, docs, hs) ==
    [o \in ObjIds |-> IF Referenced(o, docs, hs) THEN st[o] ELSE NoData]

CollectInputs(inf, docs, hs) ==
    [o \in ObjIds |-> IF Referenced(o, docs, hs) THEN inf[o] ELSE NoInput]

CollectMarks(mk, docs, hs) ==
    [o \in ObjIds |-> IF Referenced(o, docs, hs) THEN mk[o] ELSE FALSE]

\* ------------------------------------------- the plugins' initial states
\* Largest number of registerMimeTypes() calls made from outside.
MaxRegistrations == 3

\* A pass is started by a call from outside or for one that was queued, so
\* there are no more passes than calls.
PassIds == 1..MaxRegistrations

\* The future of a pass that was not started.
NoPass == [state |-> "unstarted", canceled |-> FALSE, hasResult |-> FALSE]

\* Manager::Manager: nothing queued, nothing watched, an empty register.
RegistrationInit ==
    /\ passes = [p \in PassIds |-> NoPass]
    /\ registeringWatcher = 0
    /\ finishedPosted = FALSE
    /\ hasQueuedRegistration = FALSE
    /\ register = 0
    /\ mimeTypesRegistered = <<>>
    /\ requests = [made |-> 0, passesBefore |-> 0]

\* Largest priority a definition file gives itself (the smallest is 0).
MaxPriority == 1

\* The names definition files carry, as their words.
DefinitionNameWords == {<<"C">>, <<"Objective", "C">>}

\* The words of a name with a separator between them.
RECURSIVE Join(_, _)
Join(words, separator) ==
    IF Len(words) = 1 THEN words[1]
    ELSE words[1] \o separator \o Join(Tail(words), separator)

DefinitionNames == {Join(words, " ") : words \in DefinitionNameWords}

\* The MIME types definition files list.
MimeTypeNames == {"text/x-c", "text/x-objc"}

\* kArtificial with the name, its spaces replaced by dashes.
ArtificialType(words) == "text/x-artificial-" \o Join(words, "-")

\* The definition files of the user's path and of the fallback path, in the
\* order of the directory listing.
DefinitionFiles ==
    [user |-> <<"/user/a.xml", "/user/b.xml">>,
     fallback |-> <<"/fallback/a.xml">>]

\* What Manager::parseMetadata gives for the file `file`: a null pointer
\* if the file cannot be opened; a HighlightDefinitionMetaData left as it
\* was constructed (no id, no name, no MIME type) if the file has no
\* language element; and otherwise one with the file's path as id, the
\* name, the priority and the MIME types of the element, a definition
\* that lists no MIME type getting an artificial one made from its name.
MetaDataOf(file) ==
    {[file |-> file, isNull |-> TRUE, id |-> "", name |-> "", priority |-> 0,
      mimeTypes |-> {}]}
    \cup
    {[file |-> file, isNull |-> FALSE, id |-> "", name |-> "", priority |-> 0,
      mimeTypes |-> {}]}
    \cup
    {[file |-> file, isNull |-> FALSE, id |-> file, name |-> Join(words, " "),
      priority |-> priority,
      mimeTypes |-> IF listed = {} THEN {ArtificialType(words)} ELSE listed] :
        words \in DefinitionNameWords,
        priority \in 0..MaxPriority,
        listed \in SUBSET MimeTypeNames}

\* QHash::insert: the key maps to the value, whatever it mapped to.
HashInsert(hash, key, value) ==
    [k \in (DOMAIN hash) \cup {key} |-> IF k = key THEN value ELSE hash[k]]

\* The RegisterData of a pass that has not reported: empty hashes.
NoRegisterData ==
    [reported |-> FALSE,
     considered |-> <<>>,
     idByName |-> <<>>,
     idByMimeType |-> <<>>,
     definitionsMetaData |-> <<>>,
     newMimeTypes |-> {}]

\* No pass has been given anything to process.
ProcessorInit ==
    /\ definitionsPaths = <<>>
    /\ knownMimeTypes = {}
    /\ processed = NoRegisterData

\* ---- ProjectImporter
\* The most projects a kit's TEMPORARY_OF_PROJECTS list is let grow to.
MaxProjects == 2

KitIds == {"k1", "k2"}
ImporterIds == {"i1", "i2"}

\* m_projectPath of each importer.
ProjectPathOf == [i \in ImporterIds |-> IF i = "i1" THEN "/p1/p1.pro" ELSE "/p2/p2.pro"]

\* The keys the importer keeps in a kit.
KIT_IS_TEMPORARY == "PE.TempKit"
KIT_TEMPORARY_NAME == "PE.TempName"
KIT_FINAL_NAME == "PE.FinalName"
TEMPORARY_OF_PROJECTS == "PE.TempProject"

\* A name is the sequence of its parts; the null QString has none.
NullString == <<>>

\* A Kit that was never created, or was deleted by the KitManager.
NoKit == [created |-> FALSE, registered |-> FALSE, displayName |-> NullString, values |-> <<>>]

\* A Kit the user set up: it holds none of the importer's keys.
UserKit(name) == [created |-> TRUE, registered |-> TRUE, displayName |-> name, values |-> <<>>]

NoKitCall == [op |-> "none", importer |-> "", kit |-> "", persisted |-> <<>>]

\* The ids temporary information is kept under, and the data kept.
HandlerIds == {"QtSupport"}
TemporaryData == {"qt1", "qt2"}

\* One kit of the user's is registered, no importer exists.
ImporterInit ==
    /\ kits = [k \in KitIds |-> IF k = "k1" THEN UserKit(<<"Desktop">>) ELSE NoKit]
    /\ importers = {}
    /\ temporaryHandlers = [i \in ImporterIds |-> <<>>]
    /\ lastKitCall = NoKitCall

\* ---- MultiDefinitionDownloader
\* The definition names there are, the ones the available-definitions list
\* has a URL for, and the definitions each definition file refers to.
DownloadNames == {"C++", "Doxygen", "Alerts", "Modelines"}
AvailableDefinitions == {"C++", "Doxygen", "Alerts"}
ReferencesOf ==
    [n \in DownloadNames |->
        CASE n = "C++" -> {"Doxygen"}
          [] n = "Doxygen" -> {"Alerts", "C++"}
          [] n = "Alerts" -> {"Modelines"}
          [] OTHER -> {}]

NoDownloader == [state |-> "none", installed |-> {}]

\* DefinitionDownloader::Status, as a download can end.
DownloadStatuses == {"Ok", "NetworkError", "WriteError"}

\* No download error dialog is open.
NoMessageBox == [open |-> FALSE, all |-> FALSE, writeError |-> FALSE]

\* Manager::Manager leaves m_multiDownloader unset.
DownloaderInit ==
    /\ multiDownloader = NoDownloader
    /\ installedDefinitions = <<>>
    /\ referencedDefinitions = {}
    /\ downloaders = {}
    /\ messageBox = NoMessageBox
    /\ scheduled = <<>>
    /\ finishedEmitted = 0

\* ---- OutputTabWidget
\* The most panes added to the widget.
MaxPanes == 2
PaneIds == 1..MaxPanes

\* The panes whose data changes, so that they ask for an alert.
AlertingPanes == {1, 2}

\* The fades an alert consists of (m_animCounter < 8).
AlertFades == 8

StoppedAnimator == [running |-> FALSE, animCounter |-> 0]

PaneCall(op, index, para, emitted, alertStarted) ==
    [op |-> op, index |-> index, para |-> para, emitted |-> emitted,
     alertStarted |-> alertStarted]

\* OutputTabWidget::OutputTabWidget: no pane yet, close() has hidden the
\* stacked widget and emitted visibilityChanged(false), and the new widget
\* is not on screen yet.
OutputInit ==
    /\ pages = 0
    /\ checked = [b \in PaneIds |-> FALSE]
    /\ animator = [b \in PaneIds |-> StoppedAnimator]
    /\ currentPane = 0
    /\ stackedHidden = TRUE
    /\ windowVisible = FALSE
    /\ shownByCall = FALSE
    /\ lastPaneCall = PaneCall("OutputTabWidget", 0, FALSE, <<"visibilityChanged(false)">>, FALSE)

PluginsInit ==
    /\ RegistrationInit
    /\ ProcessorInit
    /\ ImporterInit
    /\ DownloaderInit
    /\ OutputInit

\* ---------------------------------------------------------------- Init
\* The document cache before anything was created.
DocumentsInit ==
    /\ now = 1
    /\ disk = {MainFile}
    /\ projectPartChange = 1
    /\ store = [o \in ObjIds |-> NoData]
    /\ documents = {}
    /\ watchedFiles = {}
    /\ unsavedFiles = {}
    /\ handles = [h \in Handles |-> NullDoc]
    /\ inflight = [o \in ObjIds |-> NoInput]
    /\ markedSinceBuilt = [o \in ObjIds |-> FALSE]
    /\ last = Step("none")

\* The document cache lives in the backend process, the plugins in the
\* IDE process: each process holds nothing of the other's objects.
NoObject == <<>>

NoDocuments ==
    /\ now = NoObject
    /\ disk = NoObject
    /\ projectPartChange = NoObject
    /\ store = NoObject
    /\ documents = NoObject
    /\ watchedFiles = NoObject
    /\ unsavedFiles = NoObject
    /\ handles = NoObject
    /\ inflight = NoObject
    /\ markedSinceBuilt = NoObject
    /\ last = NoObject

NoPlugins ==
    /\ passes = NoObject
    /\ registeringWatcher = NoObject
    /\ finishedPosted = NoObject
    /\ hasQueuedRegistration = NoObject
    /\ register = NoObject
    /\ mimeTypesRegistered = NoObject
    /\ requests = NoObject
    /\ definitionsPaths = NoObject
    /\ knownMimeTypes = NoObject
    /\ processed = NoObject
    /\ kits = NoObject
    /\ importers = NoObject
    /\ temporaryHandlers = NoObject
    /\ lastKitCall = NoObject
    /\ multiDownloader = NoObject
    /\ installedDefinitions = NoObject
    /\ referencedDefinitions = NoObject
    /\ downloaders = NoObject
    /\ messageBox = NoObject
    /\ scheduled = NoObject
    /\ finishedEmitted = NoObject
    /\ pages = NoObject
    /\ checked = NoObject
    /\ animator = NoObject
    /\ currentPane = NoObject
    /\ stackedHidden = NoObject
    /\ windowVisible = NoObject
    /\ shownByCall = NoObject
    /\ lastPaneCall = NoObject

\* The backend process as it starts.
Init ==
    /\ DocumentsInit
    /\ NoPlugins

\* The IDE process as it starts.
InitPlugins ==
    /\ NoDocuments
    /\ PluginsInit

\* --------------------------------------------------------- environment
\* The steady clock advances.
Tick ==
    /\ Running
    /\ now < MaxTime
    /\ now' = now + 1
    /\ last' = Step("tick")
    /\ UNCHANGED <<pluginVars, unsavedFiles, disk, projectPartChange, store,
                   documents, watchedFiles, handles, inflight, markedSinceBuilt>>

\* The main file is deleted from the disk.
FileRemoved ==
    /\ Running
    /\ MainFile \in disk
    /\ disk' = disk \ {MainFile}
    /\ last' = Step("fileRemoved")
    /\ UNCHANGED <<pluginVars, now, unsavedFiles, projectPartChange, store, documents,
                   watchedFiles, handles, inflight, markedSinceBuilt>>

\* The main file is written to the disk again.
FileCreated ==
    /\ Running
    /\ MainFile \notin disk
    /\ disk' = disk \cup {MainFile}
    /\ last' = Step("fileCreated")
    /\ UNCHANGED <<pluginVars, now, unsavedFiles, projectPartChange, store, documents,
                   watchedFiles, handles, inflight, markedSinceBuilt>>

\* The project part is changed: its last change time point is the clock's.
ProjectPartChanged ==
    /\ Running
    /\ projectPartChange # now
    /\ projectPartChange' = now
    /\ last' = Step("projectPartChanged")
    /\ UNCHANGED <<pluginVars, now, unsavedFiles, disk, store, documents,
                   watchedFiles, handles, inflight, markedSinceBuilt>>

\* The editor changes the main file without saving it, or saves it: the
\* unsaved files of the collection gain or lose it.
UnsavedFilesChanged ==
    /\ Running
    /\ unsavedFiles' = IF MainFile \in unsavedFiles
                       THEN unsavedFiles \ {MainFile}
                       ELSE unsavedFiles \cup {MainFile}
    /\ last' = Step("unsavedFilesChanged")
    /\ UNCHANGED <<pluginVars, now, disk, projectPartChange, store, documents,
                   watchedFiles, handles, inflight, markedSinceBuilt>>

\* --------------------------------------------------- Documents collection
\* The object the collection holds for (filePath, projectPartId), or NullDoc.
FindDocument(filePath, projectPartId) ==
    IF \E o \in documents : /\ store[o].filePath = filePath
                            /\ store[o].projectPartId = projectPartId
    THEN CHOOSE o \in documents : /\ store[o].filePath = filePath
                                  /\ store[o].projectPartId = projectPartId
    ELSE NullDoc

\* The slot a DocumentData made now goes to.
FreeSlot ==
    CHOOSE o \in ObjIds : /\ ~store[o].live
                          /\ \A o2 \in ObjIds : ~store[o2].live => o <= o2

\* A constructor that never checks for the file.
ConstructorNeverThrows(filePath, fileExistsCheck) == FALSE

\* Document::Document: the DocumentData is made, then, if asked to, the
\* constructor checks that the file exists and throws if it does not.
ConstructorThrows(filePath, fileExistsCheck) ==
    fileExistsCheck /\ filePath \notin disk

\* A handle that is left empty, as after a move, whatever it is set to.
RebindMovedFrom(h, o, docs, st) ==
    /\ handles' = [handles EXCEPT ![h] = NullDoc]
    /\ documents' = docs
    /\ store' = Collect(st, docs, handles')
    /\ inflight' = CollectInputs(inflight, docs, handles')
    /\ markedSinceBuilt' = CollectMarks(markedSinceBuilt, docs, handles')

\* The handles, and what they keep alive, once handle h is set to object o
\* and the collection holds docs.
Rebind(h, o, docs, st) ==
    /\ handles' = [handles EXCEPT ![h] = o]
    /\ documents' = docs
    /\ store' = Collect(st, docs, handles')
    /\ inflight' = CollectInputs(inflight, docs, handles')
    /\ markedSinceBuilt' = CollectMarks(markedSinceBuilt, docs, handles')

\* The record of a findOrCreate through handle h, with the project part and
\* the existence check the caller asked for.
Created(h, projectPartId, fileExistsCheck, outcome) ==
    [Call("findOrCreate", h, MainFile, NoResult, outcome)
        EXCEPT !.projectPartId = projectPartId, !.check = fileExistsCheck]

\* findOrCreate for the main file under a project part: the caller's handle
\* h becomes the existing Document, or a Document constructed now.
FindOrCreateFor(h, projectPartId, fileExistsCheck) ==
    /\ Running
    /\ LET found == FindDocument(MainFile, projectPartId)
       IN  IF found # NullDoc
           THEN /\ Rebind(h, found, documents, store)
                /\ last' = Created(h, projectPartId, fileExistsCheck, "ok")
           ELSE IF ConstructorThrows(MainFile, fileExistsCheck)
           THEN /\ last' = Created(h, projectPartId, fileExistsCheck,
                                   "DocumentFileDoesNotExistException")
                /\ UNCHANGED <<store, documents, handles, inflight, markedSinceBuilt>>
           ELSE /\ Rebind(h, FreeSlot, documents \cup {FreeSlot},
                          [store EXCEPT ![FreeSlot] =
                              NewDocumentData(MainFile, projectPartId, now)])
                /\ last' = Created(h, projectPartId, fileExistsCheck, "ok")
    /\ UNCHANGED <<pluginVars, now, unsavedFiles, disk, projectPartChange, watchedFiles>>

FindOrCreate(h, fileExistsCheck) == FindOrCreateFor(h, ProjectPartId, fileExistsCheck)

\* A remove that takes an absent key for an error.
RemoveForPresentOnly(projectPartId) ==
    /\ Running
    /\ LET docs == documents \ {FindDocument(MainFile, projectPartId)}
       IN  /\ documents' = docs
           /\ store' = Collect(store, docs, handles)
           /\ inflight' = CollectInputs(inflight, docs, handles)
           /\ markedSinceBuilt' = CollectMarks(markedSinceBuilt, docs, handles)
    /\ last' = [Step("remove") EXCEPT
                   !.path = MainFile,
                   !.projectPartId = projectPartId,
                   !.outcome = IF FindDocument(MainFile, projectPartId) = NullDoc
                               THEN "DocumentDoesNotExistException" ELSE "ok"]
    /\ UNCHANGED <<pluginVars, now, unsavedFiles, disk, projectPartChange, watchedFiles, handles>>

\* remove for the main file under a project part: the collection drops its
\* Document for the key; absent, nothing happens.
RemoveFor(projectPartId) ==
    /\ Running
    /\ LET docs == documents \ {FindDocument(MainFile, projectPartId)}
       IN  /\ documents' = docs
           /\ store' = Collect(store, docs, handles)
           /\ inflight' = CollectInputs(inflight, docs, handles)
           /\ markedSinceBuilt' = CollectMarks(markedSinceBuilt, docs, handles)
    /\ last' = [Step("remove") EXCEPT !.path = MainFile,
                                      !.projectPartId = projectPartId]
    /\ UNCHANGED <<pluginVars, now, unsavedFiles, disk, projectPartChange, watchedFiles, handles>>

Remove == RemoveFor(ProjectPartId)

\* ---------------------------------------------------------- Document
\* Document::reset
Reset(h) ==
    /\ Running
    /\ Rebind(h, NullDoc, documents, store)
    /\ last' = Call("reset", h, "", NoResult, "ok")
    /\ UNCHANGED <<pluginVars, now, unsavedFiles, disk, projectPartChange, watchedFiles>>

\* A copy that gives handle h a DocumentData of its own, equal to the one of
\* handle `other`.
AssignDeepCopy(h, other) ==
    /\ Running
    /\ IF IsNull(other)
       THEN Rebind(h, NullDoc, documents, store)
       ELSE Rebind(h, FreeSlot, documents,
                   [store EXCEPT ![FreeSlot] = Data(other)])
    /\ last' = Call("assign", h, "", NoResult, "ok")
    /\ UNCHANGED <<pluginVars, now, unsavedFiles, disk, projectPartChange, watchedFiles>>

\* Document's copy constructor and copy assignment: handle h shares the
\* backing state of handle `other`.
Assign(h, other) ==
    /\ Running
    /\ Rebind(h, handles[other], documents, store)
    /\ last' = Call("assign", h, "", NoResult, "ok")
    /\ UNCHANGED <<pluginVars, now, unsavedFiles, disk, projectPartChange, watchedFiles>>

\* Document's move constructor and move assignment, d = std::move(other.d):
\* handle h takes the backing state of handle `other`, which is left null.
\* The record of the call names the moved-from handle.
Move(h, other) ==
    /\ Running
    /\ h # other
    /\ handles' = [handles EXCEPT ![h] = handles[other], ![other] = NullDoc]
    /\ store' = Collect(store, documents, handles')
    /\ inflight' = CollectInputs(inflight, documents, handles')
    /\ markedSinceBuilt' = CollectMarks(markedSinceBuilt, documents, handles')
    /\ last' = Call("move", other, "", NoResult, "ok")
    /\ UNCHANGED <<pluginVars, now, unsavedFiles, disk, projectPartChange, documents,
                   watchedFiles>>

\* A call that changes nothing but the record of the call.
OnlyLast(op, h, path, outcome) ==
    /\ last' = Call(op, h, path, NoResult, outcome)
    /\ UNCHANGED <<pluginVars, now, unsavedFiles, disk, projectPartChange, store, documents,
                   watchedFiles, handles, inflight, markedSinceBuilt>>

\* A call that leaves the Document of handle h with `data`; dirtied tells
\* whether setDirty ran in it.
Mutate(op, h, path, data, dirtied) ==
    /\ store' = [store EXCEPT ![handles[h]] = data]
    /\ markedSinceBuilt' =
           [markedSinceBuilt EXCEPT ![handles[h]] =
                @ \/ (dirtied /\ inflight[handles[h]].built)]
    /\ last' = Call(op, h, path, NoResult, "ok")
    /\ UNCHANGED <<pluginVars, now, unsavedFiles, disk, projectPartChange, documents,
                   watchedFiles, handles, inflight>>

\* Document::setDirty: no null check before d is dereferenced.
SetDirty(h) ==
    /\ Running
    /\ IF IsNull(h)
       THEN \E out \in UBOutcomes : OnlyLast("setDirty", h, "", out)
       ELSE Mutate("setDirty", h, "", SetDirtyOf(Data(h), now), TRUE)

\* Document::setDirtyIfProjectPartIsOutdated: isProjectPartOutdated checks for null.
SetDirtyIfProjectPartIsOutdated(h) ==
    /\ Running
    /\ IF IsNull(h)
       THEN OnlyLast("setDirtyIfProjectPartIsOutdated", h, "", "DocumentIsNullException")
       ELSE Mutate("setDirtyIfProjectPartIsOutdated", h, "",
                   SetDirtyIfProjectPartIsOutdatedOf(Data(h), now),
                   IsProjectPartOutdatedOf(Data(h)))

\* Document::setDirtyIfDependencyIsMet: no null check before d is dereferenced.
SetDirtyIfDependencyIsMet(h, filePath) ==
    /\ Running
    /\ IF IsNull(h)
       THEN \E out \in UBOutcomes :
                OnlyLast("setDirtyIfDependencyIsMet", h, filePath, out)
       ELSE Mutate("setDirtyIfDependencyIsMet", h, filePath,
                   SetDirtyIfDependencyIsMetOf(Data(h), filePath, now),
                   DependencyIsMet(Data(h), filePath))

\* A service that starts an update whatever is in flight.
MayStartUpdateAnyTime(h) == TRUE

\* The owning service issues the updates of one Document serially: it starts
\* none while an input of that Document is out.
MayStartUpdate(h) == ~inflight[handles[h]].built

\* A createUpdateInput that takes the reparse for done as it builds the input.
CreateUpdateInputClearingFlag(h) ==
    /\ Running
    /\ IF IsNull(h)
       THEN OnlyLast("createUpdateInput", h, "", "DocumentIsNullException")
       ELSE /\ MayStartUpdate(h)
            /\ inflight' = [inflight EXCEPT ![handles[h]] =
                                CreateUpdateInputOf(Data(h), now)]
            /\ markedSinceBuilt' = [markedSinceBuilt EXCEPT ![handles[h]] = FALSE]
            /\ store' = [store EXCEPT ![handles[h]].needsToBeReparsed = FALSE]
            /\ last' = Call("createUpdateInput", h, "", NoResult, "ok")
            /\ UNCHANGED <<pluginVars, now, unsavedFiles, disk, projectPartChange,
                           documents, watchedFiles, handles>>

\* Document::createUpdateInput: the input is built (isProjectPartOutdated
\* checks for null first) and kept by the job until its result comes back.
CreateUpdateInput(h) ==
    /\ Running
    /\ IF IsNull(h)
       THEN OnlyLast("createUpdateInput", h, "", "DocumentIsNullException")
       ELSE /\ MayStartUpdate(h)
            /\ inflight' = [inflight EXCEPT ![handles[h]] =
                                CreateUpdateInputOf(Data(h), now)]
            /\ markedSinceBuilt' = [markedSinceBuilt EXCEPT ![handles[h]] = FALSE]
            /\ last' = Call("createUpdateInput", h, "", NoResult, "ok")
            /\ UNCHANGED <<pluginVars, now, unsavedFiles, disk, projectPartChange, store,
                           documents, watchedFiles, handles>>

\* Document::incorporateUpdaterResult with the result of the input in flight:
\* no null check before d is dereferenced.
IncorporateUpdaterResult(h) ==
    /\ Running
    /\ IF IsNull(h)
       THEN \E out \in UBOutcomes : OnlyLast("incorporateUpdaterResult", h, "", out)
       ELSE /\ inflight[handles[h]].built
            /\ \E result \in UpdaterResults(inflight[handles[h]], now) :
                  /\ store' = [store EXCEPT ![handles[h]] =
                                   IncorporateUpdaterResultOf(Data(h), result)]
                  /\ watchedFiles' = WatchedAfterIncorporate(watchedFiles, Data(h), result)
                  /\ last' = Call("incorporateUpdaterResult", h, "", result, "ok")
            /\ inflight' = [inflight EXCEPT ![handles[h]] = NoInput]
            /\ markedSinceBuilt' = [markedSinceBuilt EXCEPT ![handles[h]] = FALSE]
            /\ UNCHANGED <<pluginVars, now, unsavedFiles, disk, projectPartChange, documents, handles>>

\* Document::parse and Document::reparse: null check, input, updater, result
\* incorporated, in one blocking call.
ParseOrReparse(op, h) ==
    /\ Running
    /\ IF IsNull(h)
       THEN OnlyLast(op, h, "", "DocumentIsNullException")
       ELSE /\ MayStartUpdate(h)
            /\ LET input == CreateUpdateInputOf(Data(h), now)
               IN  \E result \in UpdaterResults(input, now) :
                     /\ store' = [store EXCEPT ![handles[h]] =
                                      IncorporateUpdaterResultOf(Data(h), result)]
                     /\ watchedFiles' =
                            WatchedAfterIncorporate(watchedFiles, Data(h), result)
                     /\ last' = Call(op, h, "", result, "ok")
            /\ UNCHANGED <<pluginVars, now, unsavedFiles, disk, projectPartChange, documents,
                           handles, inflight, markedSinceBuilt>>

Parse(h) == ParseOrReparse("parse", h)

Reparse(h) == ParseOrReparse("reparse", h)

\* Document::setDocumentRevision, setIsUsedByCurrentEditor and
\* setIsVisibleInEditor: checkIfNull, then the assignment.
SetDocumentRevision(h, revision) ==
    /\ Running
    /\ IF IsNull(h)
       THEN OnlyLast("setDocumentRevision", h, "", "DocumentIsNullException")
       ELSE /\ store' = [store EXCEPT ![handles[h]] =
                            SetDocumentRevisionOf(Data(h), revision)]
            /\ last' = [Call("setDocumentRevision", h, "", NoResult, "ok")
                          EXCEPT !.revision = revision,
                                 !.revisionBefore = Data(h).documentRevision]
            /\ UNCHANGED <<pluginVars, now, unsavedFiles, disk, projectPartChange,
                           documents, watchedFiles, handles, inflight,
                           markedSinceBuilt>>

SetIsUsedByCurrentEditor(h, isUsedByCurrentEditor) ==
    /\ Running
    /\ IF IsNull(h)
       THEN OnlyLast("setIsUsedByCurrentEditor", h, "", "DocumentIsNullException")
       ELSE Mutate("setIsUsedByCurrentEditor", h, "",
                   SetIsUsedByCurrentEditorOf(Data(h), isUsedByCurrentEditor), FALSE)

SetIsVisibleInEditor(h, isVisibleInEditor) ==
    /\ Running
    /\ IF IsNull(h)
       THEN OnlyLast("setIsVisibleInEditor", h, "", "DocumentIsNullException")
       ELSE Mutate("setIsVisibleInEditor", h, "",
                   SetIsVisibleInEditorOf(Data(h), isVisibleInEditor), FALSE)

\* Document::setHasParseOrReparseFailed: no null check before d is dereferenced.
SetHasParseOrReparseFailed(h, hasFailed) ==
    /\ Running
    /\ IF IsNull(h)
       THEN \E out \in UBOutcomes :
                OnlyLast("setHasParseOrReparseFailed", h, "", out)
       ELSE Mutate("setHasParseOrReparseFailed", h, "",
                   SetHasParseOrReparseFailedOf(Data(h), hasFailed), FALSE)

\* Document::isNull and Document::isIntact: neither throws on a null Document.
IsNullCall(h) == Running /\ OnlyLast("isNull", h, "", "ok")

IsIntactCall(h) == Running /\ OnlyLast("isIntact", h, "", "ok")

\* The accessors that start with checkIfNull() and then read a member; these
\* five stand for all of them (lines 147-254), which differ in the member read.
Getters == {"filePath", "projectPartId", "isProjectPartOutdated",
            "isNeedingReparse", "isNeededReparseChangeTimePoint"}

Get(h, g) ==
    /\ Running
    /\ OnlyLast(g, h, "", IF IsNull(h) THEN "DocumentIsNullException" ELSE "ok")

\* dependedFilePaths without the look at the disk.
DependedFilePathsUnchecked(h) ==
    IF IsNull(h) THEN "DocumentIsNullException" ELSE "ok"

\* Document::dependedFilePaths: checkIfNull, then checkIfFileExists.
DependedFilePathsOutcome(h) ==
    IF IsNull(h) THEN "DocumentIsNullException"
    ELSE IF ~FileExistsOf(Data(h)) THEN "DocumentFileDoesNotExistException"
    ELSE "ok"

DependedFilePaths(h) ==
    /\ Running
    /\ OnlyLast("dependedFilePaths", h, "", DependedFilePathsOutcome(h))

\* Document::fileExists: no null check before d is dereferenced.
FileExists(h) ==
    /\ Running
    /\ IF IsNull(h)
       THEN \E out \in UBOutcomes : OnlyLast("fileExists", h, "", out)
       ELSE OnlyLast("fileExists", h, "", "ok")

\* operator==: filePath() of either Document throws if it is null.
Equals(h, other) ==
    /\ Running
    /\ OnlyLast("==", h, "",
                IF IsNull(h) \/ IsNull(other) THEN "DocumentIsNullException"
                ELSE IF EqualsOf(Data(h), Data(other)) THEN "true"
                ELSE "false")

\* ---------------------------------------------------------------- Next
\* The staleness life cycle of a Document.
Next ==
    \/ Tick
    \/ FileRemoved
    \/ FileCreated
    \/ ProjectPartChanged
    \/ \E h \in OwnerHandles, c \in BOOLEAN : FindOrCreate(h, c)
    \/ \E h \in OwnerHandles : SetDirty(h)
    \/ \E h \in OwnerHandles : SetDirtyIfProjectPartIsOutdated(h)
    \/ \E h \in OwnerHandles, p \in Paths : SetDirtyIfDependencyIsMet(h, p)
    \/ \E h \in OwnerHandles : CreateUpdateInput(h)
    \/ \E h \in OwnerHandles : IncorporateUpdaterResult(h)
    \/ \E h \in OwnerHandles : Parse(h)
    \/ \E h \in OwnerHandles : Reparse(h)

Spec == Init /\ [][Next]_vars

\* Every call a holder of a handle can make, the handle null or not, within
\* one reading of the clock.
NextCalls ==
    \/ FileRemoved
    \/ FileCreated
    \/ \E h \in OwnerHandles, c \in BOOLEAN : FindOrCreate(h, c)
    \/ Remove
    \/ \E h \in OwnerHandles : Reset(h)
    \/ \E h \in OwnerHandles : SetDirty(h)
    \/ \E h \in OwnerHandles : SetDirtyIfProjectPartIsOutdated(h)
    \/ \E h \in OwnerHandles, p \in Paths : SetDirtyIfDependencyIsMet(h, p)
    \/ \E h \in OwnerHandles : CreateUpdateInput(h)
    \/ \E h \in OwnerHandles : IncorporateUpdaterResult(h)
    \/ \E h \in OwnerHandles : Parse(h)
    \/ \E h \in OwnerHandles : Reparse(h)
    \/ \E h \in OwnerHandles : IsNullCall(h)
    \/ \E h \in OwnerHandles : IsIntactCall(h)
    \/ \E h \in OwnerHandles, g \in Getters : Get(h, g)
    \/ \E h \in OwnerHandles : DependedFilePaths(h)
    \/ \E h \in OwnerHandles : FileExists(h)

SpecCalls == Init /\ [][NextCalls]_vars

\* The calls of an editor session on the Documents collection and on a
\* Document it holds, within one reading of the clock and with the files
\* on the disk as they are.
NextEditor ==
    \/ \E h \in OwnerHandles, c \in BOOLEAN : FindOrCreate(h, c)
    \/ Remove
    \/ \E h \in OwnerHandles, revision \in Revisions : SetDocumentRevision(h, revision)
    \/ \E h \in OwnerHandles, b \in BOOLEAN : SetIsUsedByCurrentEditor(h, b)
    \/ \E h \in OwnerHandles, b \in BOOLEAN : SetIsVisibleInEditor(h, b)
    \/ \E h \in OwnerHandles, b \in BOOLEAN : SetHasParseOrReparseFailed(h, b)
    \/ \E h \in OwnerHandles : SetDirty(h)
    \/ \E h \in OwnerHandles : SetDirtyIfProjectPartIsOutdated(h)
    \/ \E h \in OwnerHandles, p \in Paths : SetDirtyIfDependencyIsMet(h, p)
    \/ \E h \in OwnerHandles : CreateUpdateInput(h)
    \/ \E h \in OwnerHandles : IncorporateUpdaterResult(h)
    \/ \E h \in OwnerHandles : Parse(h)
    \/ \E h \in OwnerHandles : Reparse(h)

SpecEditor == Init /\ [][NextEditor]_vars

\* The Documents collection with two project parts of the main file, and
\* the handles of the owning service and of a job on its Documents.
NextDocuments ==
    \/ \E h \in Handles, projectPartId \in ProjectPartIds, c \in BOOLEAN :
           FindOrCreateFor(h, projectPartId, c)
    \/ \E projectPartId \in ProjectPartIds : RemoveFor(projectPartId)
    \/ \E h \in Handles : Reset(h)
    \/ \E h, other \in Handles : Assign(h, other)
    \/ \E h \in Handles : SetDirty(h)

SpecDocuments == Init /\ [][NextDocuments]_vars

\* Two jobs, each with its handle on a Document, that build update inputs
\* and incorporate the results in any interleaving, and the blocking parse
\* and reparse of the owning service.
NextJobs ==
    \/ \E h \in Handles, projectPartId \in ProjectPartIds :
           FindOrCreateFor(h, projectPartId, FALSE)
    \/ \E h \in Handles : CreateUpdateInput(h)
    \/ \E h \in Handles : IncorporateUpdaterResult(h)
    \/ \E h \in OwnerHandles : Parse(h)
    \/ \E h \in OwnerHandles : Reparse(h)

SpecJobs == Init /\ [][NextJobs]_vars

\* The update input of a job while the clock, the project part, the
\* unsaved files and the Document move on.
NextRequest ==
    \/ Tick
    \/ ProjectPartChanged
    \/ UnsavedFilesChanged
    \/ \E h \in OwnerHandles : FindOrCreate(h, FALSE)
    \/ \E h \in OwnerHandles : SetDirty(h)
    \/ \E h \in OwnerHandles : SetDirtyIfProjectPartIsOutdated(h)
    \/ \E h \in OwnerHandles : CreateUpdateInput(h)
    \/ \E h \in OwnerHandles : IncorporateUpdaterResult(h)

SpecRequest == Init /\ [][NextRequest]_vars

\* The handles of the owning service and of a job as copies of one another
\* and of the collection's Document: copied, moved, reset and called
\* through.
NextCopies ==
    \/ \E h \in Handles : FindOrCreate(h, FALSE)
    \/ \E h \in Handles : Reset(h)
    \/ \E h, other \in Handles : Assign(h, other)
    \/ \E h, other \in Handles : Move(h, other)
    \/ \E h \in Handles : SetDirty(h)
    \/ \E h \in Handles, revision \in Revisions : SetDocumentRevision(h, revision)
    \/ \E h \in Handles : CreateUpdateInput(h)
    \/ \E h \in Handles : IncorporateUpdaterResult(h)

SpecCopies == Init /\ [][NextCopies]_vars

\* A reparse() whose result is a reparse that did not fail; the result of a
\* reparse carries the time point of the input it was made for.
SuccessfulReparse(h) ==
    /\ Reparse(h)
    /\ ~last'.wasNull
    /\ last'.result.reparsed
    /\ ~last'.result.hasParseOrReparseFailed

\* The owner's Document marked dirty and reparsed while the clock and the
\* project part move on; the owner keeps issuing reparses that succeed.
NextReparse ==
    \/ Tick
    \/ ProjectPartChanged
    \/ \E h \in OwnerHandles : FindOrCreate(h, FALSE)
    \/ \E h \in OwnerHandles : SetDirty(h)
    \/ \E h \in OwnerHandles : SetDirtyIfProjectPartIsOutdated(h)
    \/ \E h \in OwnerHandles : Reparse(h)

SpecReparse ==
    /\ Init
    /\ [][NextReparse]_vars
    /\ \A h \in OwnerHandles : WF_vars(SuccessfulReparse(h))

\* The calls that mark a Document, build and incorporate its updates and
\* set its revision, editor flags and failure flag, while the clock moves on.
NextTimePoint ==
    \/ Tick
    \/ \E h \in OwnerHandles : FindOrCreate(h, FALSE)
    \/ \E h \in OwnerHandles, revision \in Revisions : SetDocumentRevision(h, revision)
    \/ \E h \in OwnerHandles, b \in BOOLEAN : SetIsUsedByCurrentEditor(h, b)
    \/ \E h \in OwnerHandles, b \in BOOLEAN : SetIsVisibleInEditor(h, b)
    \/ \E h \in OwnerHandles, b \in BOOLEAN : SetHasParseOrReparseFailed(h, b)
    \/ \E h \in OwnerHandles : SetDirty(h)
    \/ \E h \in OwnerHandles : SetDirtyIfProjectPartIsOutdated(h)
    \/ \E h \in OwnerHandles, p \in Paths : SetDirtyIfDependencyIsMet(h, p)
    \/ \E h \in OwnerHandles : CreateUpdateInput(h)
    \/ \E h \in OwnerHandles : IncorporateUpdaterResult(h)
    \/ \E h \in OwnerHandles : Parse(h)
    \/ \E h \in OwnerHandles : Reparse(h)

SpecTimePoint == Init /\ [][NextTimePoint]_vars

\* The files Documents are compared for: the main file and a header.
ComparedFiles == {MainFile, "/a.h"}

\* The clock readings a Document's time points hold when it is compared.
ComparedTimes == 1..MaxTime

\* The states a Document held through a handle can be in when it is
\* compared: made at any clock reading, its project part change time point
\* set and the Document marked dirty at any, with any revision, flags and
\* dependencies.
ComparedDocumentData ==
    { [NewDocumentData(f, p, 1) EXCEPT
          !.lastProjectPartChangeTimePoint = changed,
          !.needsToBeReparsedChangeTimePoint = marked,
          !.dependedFilePaths = deps,
          !.documentRevision = revision,
          !.hasParseOrReparseFailed = failed,
          !.needsToBeReparsed = dirty] :
        f \in ComparedFiles, p \in ProjectPartIds,
        changed \in ComparedTimes, marked \in ComparedTimes,
        deps \in {{MainFile, "/a.h"}, Paths}, revision \in Revisions,
        failed \in BOOLEAN, dirty \in BOOLEAN }

\* The states among them of a Document whose revision was never set and
\* that was last reparsed without a failure, with the header as its only
\* other dependency.
ComparedNewDocumentData ==
    { data \in ComparedDocumentData :
        /\ data.dependedFilePaths = {MainFile, "/a.h"}
        /\ data.documentRevision = 0
        /\ ~data.hasParseOrReparseFailed
        /\ ~data.needsToBeReparsed }

\* Each handle holds a Document of its own, the first reparsed and with any
\* key and time points, the second in any state; the collection has dropped
\* them. Their dependencies were incorporated, so they are watched, as are
\* the files of any dependencies incorporated before.
InitEquality ==
    /\ now = MaxTime
    /\ disk = {MainFile}
    /\ projectPartChange = 1
    /\ \E first \in ComparedNewDocumentData, second \in ComparedDocumentData :
          /\ store = [o \in ObjIds |-> IF o = 1 THEN first
                                       ELSE IF o = 2 THEN second ELSE NoData]
          /\ watchedFiles \in
                 {watched \in SUBSET Paths :
                     first.dependedFilePaths \cup second.dependedFilePaths
                         \subseteq watched}
    /\ documents = {}
    /\ unsavedFiles = {}
    /\ handles = [h \in Handles |-> IF h = "h1" THEN 1 ELSE 2]
    /\ inflight = [o \in ObjIds |-> NoInput]
    /\ markedSinceBuilt = [o \in ObjIds |-> FALSE]
    /\ last = Step("none")
    /\ NoPlugins

\* The Documents of the two handles are compared, copied and reset.
NextEquality ==
    \/ \E h, other \in Handles : h # other /\ Equals(h, other)
    \/ \E h, other \in Handles : Assign(h, other)
    \/ \E h \in Handles : Reset(h)

SpecEquality == InitEquality /\ [][NextEquality]_vars

\* ------------------------------------- Manager: registering MIME types
\* A watcher that never reports its future as running.
IsRunningNever == FALSE

\* m_registeringWatcher.isRunning(): the watched future has started and its
\* function has not returned.
IsRunning ==
    /\ registeringWatcher # 0
    /\ passes[registeringWatcher].state = "running"

\* m_registeringWatcher.isCanceled()
IsCanceled == passes[registeringWatcher].canceled

\* The passes started so far, and the one QtConcurrent::run starts next.
Started == {p \in PassIds : passes[p].state # "unstarted"}

NextPass == Cardinality(Started) + 1

\* Manager::registerMimeTypes, called with the flag `queued` and with
\* `posted` telling whether a finished() of the watcher awaits delivery.
\* No pass running: clear(), a new pass is run and watched; setFuture makes
\* the watcher forget the future it watched, a finished() of that one is
\* delivered no more.  A pass running: the flag is set and the pass is
\* cancelled.
RegisterMimeTypesWith(queued, posted) ==
    IF ~IsRunning
    THEN /\ NextPass \in PassIds
         /\ register' = 0
         /\ passes' = [passes EXCEPT ![NextPass] =
                           [state |-> "running", canceled |-> FALSE,
                            hasResult |-> FALSE]]
         /\ registeringWatcher' = NextPass
         /\ finishedPosted' = FALSE
         /\ hasQueuedRegistration' = queued
    ELSE /\ hasQueuedRegistration' = TRUE
         /\ passes' = [passes EXCEPT ![registeringWatcher].canceled = TRUE]
         /\ finishedPosted' = posted
         /\ UNCHANGED <<register, registeringWatcher>>

\* Manager::registerMimeTypes called from outside (the settings changed).
RegisterMimeTypes ==
    /\ requests.made < MaxRegistrations
    /\ RegisterMimeTypesWith(hasQueuedRegistration, finishedPosted)
    /\ requests' = [made |-> requests.made + 1,
                    passesBefore |-> Cardinality(Started)]
    /\ UNCHANGED <<mimeTypesRegistered, besideRegistration>>

\* ManagerProcessor::process in its thread gets to future.reportResult: a
\* future that is cancelled takes no result.
ProcessReportsResult(p) ==
    /\ passes[p].state = "running"
    /\ ~passes[p].canceled
    /\ ~passes[p].hasResult
    /\ passes' = [passes EXCEPT ![p].hasResult = TRUE]
    /\ UNCHANGED <<registeringWatcher, finishedPosted, hasQueuedRegistration,
                   register, mimeTypesRegistered, requests, besideRegistration>>

\* ManagerProcessor::process returns, after reporting its result or after
\* it saw future.isCanceled(): the future is finished and the watcher that
\* watches it is posted finished().
ProcessReturns(p) ==
    /\ passes[p].state = "running"
    /\ passes[p].hasResult \/ passes[p].canceled
    /\ passes' = [passes EXCEPT ![p].state = "finished"]
    /\ finishedPosted' = IF p = registeringWatcher THEN TRUE ELSE finishedPosted
    /\ UNCHANGED <<registeringWatcher, hasQueuedRegistration, register,
                   mimeTypesRegistered, requests, besideRegistration>>

\* A slot that forgets the registration that was queued.
RegisterMimeTypesFinishedDroppingQueued ==
    /\ finishedPosted
    /\ finishedPosted' = FALSE
    /\ hasQueuedRegistration' = FALSE
    /\ IF ~hasQueuedRegistration /\ ~IsCanceled
       THEN /\ register' = registeringWatcher
            /\ mimeTypesRegistered' =
                   Append(mimeTypesRegistered, registeringWatcher)
       ELSE UNCHANGED <<register, mimeTypesRegistered>>
    /\ UNCHANGED <<passes, registeringWatcher, requests, besideRegistration>>

\* Manager::registerMimeTypesFinished, the slot of the watcher's finished()
RegisterMimeTypesFinished ==
    /\ finishedPosted
    /\ IF hasQueuedRegistration
       THEN /\ RegisterMimeTypesWith(FALSE, FALSE)
            /\ UNCHANGED mimeTypesRegistered
       ELSE IF ~IsCanceled
       THEN /\ register' = registeringWatcher
            /\ mimeTypesRegistered' =
                   Append(mimeTypesRegistered, registeringWatcher)
            /\ finishedPosted' = FALSE
            /\ UNCHANGED <<passes, registeringWatcher, hasQueuedRegistration>>
       ELSE /\ finishedPosted' = FALSE
            /\ UNCHANGED <<passes, registeringWatcher, hasQueuedRegistration,
                           register, mimeTypesRegistered>>
    /\ UNCHANGED <<requests, besideRegistration>>

\* Registrations asked for while passes run, return and are delivered; a
\* pass that runs returns, and a posted finished() is delivered.
NextRegistration ==
    \/ RegisterMimeTypes
    \/ \E p \in PassIds : ProcessReportsResult(p)
    \/ \E p \in PassIds : ProcessReturns(p)
    \/ RegisterMimeTypesFinished

SpecRegistration ==
    /\ InitPlugins
    /\ [][NextRegistration]_vars
    /\ \A p \in PassIds : WF_vars(ProcessReportsResult(p))
    /\ \A p \in PassIds : WF_vars(ProcessReturns(p))
    /\ WF_vars(RegisterMimeTypesFinished)

\* ------------------------------------------- ManagerProcessor::process
\* The orders Utils::sort can leave the definitions of one path in: any
\* order with no definition before one of higher priority.
SortedOrders(metaData) ==
    LET n == Len(metaData)
    IN  { [i \in 1..n |-> metaData[o[i]]] :
            o \in { f \in [1..n -> 1..n] :
                      /\ \A i, j \in 1..n : i # j => f[i] # f[j]
                      /\ \A i, j \in 1..n :
                            i < j => metaData[f[i]].priority >=
                                         metaData[f[j]].priority } }

\* Every MIME type of the definition mapped to its id, whatever it mapped to.
RECURSIVE InsertAllTypes(_, _, _)
InsertAllTypes(hash, types, id) ==
    IF types = {} THEN hash
    ELSE LET t == CHOOSE t \in types : TRUE
         IN  InsertAllTypes(HashInsert(hash, t, id), types \ {t}, id)

\* The body of the loop over the definitions with an insert that replaces
\* the id a MIME type already maps to.
ConsiderOverwriting(data, metaData) ==
    IF metaData.name \in DOMAIN data.idByName
    THEN data
    ELSE [data EXCEPT
            !.idByName = HashInsert(@, metaData.name, metaData.id),
            !.definitionsMetaData = HashInsert(@, metaData.id, metaData),
            !.idByMimeType = InsertAllTypes(@, metaData.mimeTypes, metaData.id),
            !.newMimeTypes =
                @ \cup {t \in metaData.mimeTypes :
                            /\ t \notin DOMAIN data.idByMimeType
                            /\ t \notin knownMimeTypes}]

\* The body of the loop over the definitions of a path: a definition whose
\* name is taken is passed over; otherwise its name maps to its id, its id
\* to the definition, each of its MIME types that maps to nothing yet maps
\* to its id, and those of them that are not known become new MIME types
\* (and known).  The glob patterns of the new MIME types are left out.
Consider(data, metaData) ==
    IF metaData.name \in DOMAIN data.idByName
    THEN data
    ELSE [data EXCEPT
            !.idByName = HashInsert(@, metaData.name, metaData.id),
            !.definitionsMetaData = HashInsert(@, metaData.id, metaData),
            !.idByMimeType =
                InsertAllTypes(@, {t \in metaData.mimeTypes : t \notin DOMAIN @},
                               metaData.id),
            !.newMimeTypes =
                @ \cup {t \in metaData.mimeTypes :
                            /\ t \notin DOMAIN data.idByMimeType
                            /\ t \notin knownMimeTypes}]

RECURSIVE ConsiderAll(_, _)
ConsiderAll(data, metaData) ==
    IF metaData = <<>>
    THEN data
    ELSE ConsiderAll(Consider(data, Head(metaData)), Tail(metaData))

\* allMetaData of a path: what parseMetadata gave for its files, the null
\* pointers left out.
AllMetaData(k) == SelectSeq(definitionsPaths[k].metaData, LAMBDA m : ~m.isNull)

\* The definitions of the paths from the k-th on, each path in the order
\* chosen for it; a path with an empty name is passed over.
RECURSIVE InPathOrder(_, _)
InPathOrder(orders, k) ==
    IF k > Len(definitionsPaths)
    THEN <<>>
    ELSE (IF definitionsPaths[k].path = "" THEN <<>> ELSE orders[k])
         \o InPathOrder(orders, k + 1)

\* ManagerProcessor::process: the definitions are considered path by path,
\* sorted by priority; the pass returns without a result when it sees, before
\* it considers a definition, that its future is cancelled, and reports
\* the RegisterData and the new MIME types otherwise.
Process ==
    /\ definitionsPaths # <<>>
    /\ processed = NoRegisterData
    /\ \E orders \in { f \in [1..Len(definitionsPaths) ->
                                 UNION {SortedOrders(AllMetaData(k)) :
                                          k \in 1..Len(definitionsPaths)}] :
                          \A k \in 1..Len(definitionsPaths) :
                              f[k] \in SortedOrders(AllMetaData(k)) } :
          LET considered == InPathOrder(orders, 1)
          IN  \E seen \in 1..(Len(considered) + 1) :
                  processed' =
                      IF seen <= Len(considered)
                      THEN [NoRegisterData EXCEPT
                              !.considered = SubSeq(considered, 1, seen - 1)]
                      ELSE [ConsiderAll(NoRegisterData, considered) EXCEPT
                              !.reported = TRUE,
                              !.considered = considered]
    /\ UNCHANGED <<definitionsPaths, knownMimeTypes, besideProcessor>>

\* A pass is given the user's path with two definition files and the
\* fallback path (its name possibly empty) with one, whatever the files
\* hold (unreadable, no language element, or any name, priority and MIME
\* types), and any of the MIME types may be known.
InitProcess ==
    /\ NoDocuments
    /\ RegistrationInit
    /\ ImporterInit
    /\ DownloaderInit
    /\ OutputInit
    /\ \E a \in MetaDataOf(DefinitionFiles.user[1]),
          b \in MetaDataOf(DefinitionFiles.user[2]),
          c \in MetaDataOf(DefinitionFiles.fallback[1]),
          fallbackPath \in {"/fallback", ""} :
          definitionsPaths =
              <<[path |-> "/user", metaData |-> <<a, b>>],
                [path |-> fallbackPath, metaData |-> <<c>>]>>
    /\ knownMimeTypes \in {{}, {"text/x-c"}}
    /\ processed = NoRegisterData

NextProcess == Process

SpecProcess == InitProcess /\ [][NextProcess]_vars

\* ====================================================== ProjectImporter
\* Kit::hasValue
HasValue(kit, key) == key \in DOMAIN kit.values

\* Kit::value(key, default)
Value(kit, key, default) == IF HasValue(kit, key) THEN kit.values[key] ELSE default

\* Kit::setValue and Kit::setValueSilently
SetValue(kit, key, v) ==
    [kit EXCEPT !.values = [x \in (DOMAIN @) \cup {key} |-> IF x = key THEN v ELSE @[x]]]

\* Kit::removeKey
RemoveKey(kit, key) ==
    [kit EXCEPT !.values = [x \in (DOMAIN @) \ {key} |-> @[x]]]

\* QList::removeAll: every occurrence of x goes.
RemoveAll(list, x) == SelectSeq(list, LAMBDA e : e # x)

\* QList::removeOne: the first occurrence of x goes, if there is one.
RECURSIVE RemoveOne(_, _)
RemoveOne(list, x) ==
    IF list = <<>> THEN <<>>
    ELSE IF Head(list) = x THEN Tail(list)
    ELSE <<Head(list)>> \o RemoveOne(Tail(list), x)

\* tr("%1 - temporary").arg(name)
TemporaryName(name) == name \o <<" - temporary">>

\* ProjectImporter::markKitAsTemporary
MarkKitAsTemporaryOf(kit) ==
    IF HasValue(kit, KIT_IS_TEMPORARY) THEN kit
    ELSE LET renamed == [kit EXCEPT !.displayName = TemporaryName(kit.displayName)]
         IN  SetValue(SetValue(SetValue(renamed,
                 KIT_TEMPORARY_NAME, renamed.displayName),
                 KIT_FINAL_NAME, kit.displayName),
                 KIT_IS_TEMPORARY, TRUE)

\* ProjectImporter::addProject on a kit, by an importer of the project `path`.
AddProjectOf(kit, path) ==
    IF ~HasValue(kit, KIT_IS_TEMPORARY) THEN kit
    ELSE SetValue(kit, TEMPORARY_OF_PROJECTS,
                  Append(Value(kit, TEMPORARY_OF_PROJECTS, <<>>), path))

\* removeProject taking every occurrence of the project off the kit.
RemoveProjectRemovingAll(kit, path) ==
    IF ~HasValue(kit, KIT_IS_TEMPORARY) THEN kit
    ELSE LET projects == RemoveAll(Value(kit, TEMPORARY_OF_PROJECTS, <<>>), path)
         IN  IF projects = <<>> THEN NoKit
             ELSE SetValue(kit, TEMPORARY_OF_PROJECTS, projects)

\* ProjectImporter::removeProject; KitManager::deregisterKit takes the kit
\* off the KitManager's list and deletes it.
RemoveProjectOf(kit, path) ==
    IF ~HasValue(kit, KIT_IS_TEMPORARY) THEN kit
    ELSE LET projects == RemoveOne(Value(kit, TEMPORARY_OF_PROJECTS, <<>>), path)
         IN  IF projects = <<>> THEN NoKit
             ELSE SetValue(kit, TEMPORARY_OF_PROJECTS, projects)

\* fullId: the key the temporary information of a handler is kept under.
FullId(id) == "PE.Temporary." \o id

\* The elements of a list that are contained in another, in their order.
Filtered(list, kept) ==
    SelectSeq(list, LAMBDA v : \E n \in 1..Len(kept) : kept[n] = v)

\* makePersistent leaving the kit flagged as temporary.
MakePersistentKeepingFlag(kit) ==
    IF ~HasValue(kit, KIT_IS_TEMPORARY) THEN kit
    ELSE LET tempName == Value(kit, KIT_TEMPORARY_NAME, NullString)
             renamed ==
                 IF tempName # NullString /\ kit.displayName = tempName
                 THEN [kit EXCEPT !.displayName = Value(kit, KIT_FINAL_NAME, NullString)]
                 ELSE kit
         IN  RemoveKey(RemoveKey(RemoveKey(renamed,
                 TEMPORARY_OF_PROJECTS), KIT_TEMPORARY_NAME), KIT_FINAL_NAME)

\* ProjectImporter::makePersistent, what it does to the kit itself.
MakePersistentOf(kit) ==
    IF ~HasValue(kit, KIT_IS_TEMPORARY) THEN kit
    ELSE LET cleared == RemoveKey(RemoveKey(kit, KIT_IS_TEMPORARY), TEMPORARY_OF_PROJECTS)
             tempName == Value(cleared, KIT_TEMPORARY_NAME, NullString)
             renamed ==
                 IF tempName # NullString /\ cleared.displayName = tempName
                 THEN [cleared EXCEPT !.displayName = Value(cleared, KIT_FINAL_NAME, NullString)]
                 ELSE cleared
         IN  RemoveKey(RemoveKey(renamed, KIT_TEMPORARY_NAME), KIT_FINAL_NAME)

\* ProjectImporter::makePersistent, what it does to another registered kit
\* for the handlers from the n-th on: of the kit's values under a handler's
\* key those stay that the kit made persistent holds too, and the key is
\* set even if the kit had none.
RECURSIVE MarkPermanentIn(_, _, _, _)
MarkPermanentIn(other, kit, handlers, n) ==
    IF n > Len(handlers) THEN other
    ELSE LET fid == FullId(handlers[n])
             temporaryValues == Value(kit, fid, <<>>)
         IN  MarkPermanentIn(
                 SetValue(other, fid, Filtered(Value(other, fid, <<>>), temporaryValues)),
                 kit, handlers, n + 1)

\* The calls of the handlers' persist functions makePersistent makes.
PersistCalls(kit, handlers) ==
    [n \in 1..Len(handlers) |->
        [id |-> handlers[n], values |-> Value(kit, FullId(handlers[n]), <<>>)]]

KitCall(op, i, k) == [op |-> op, importer |-> i, kit |-> k, persisted |-> <<>>]

\* KitManager::kits()
RegisteredKits == {k \in KitIds : kits[k].registered}

\* The names a kit is given by the user or by an importer's setup function.
GivenNames == {<<"Qt 5">>}

\* ProjectImporter::ProjectImporter
ConstructImporter(i) ==
    /\ i \notin importers
    /\ importers' = importers \cup {i}
    /\ temporaryHandlers' = [temporaryHandlers EXCEPT ![i] = <<>>]
    /\ lastKitCall' = KitCall("ProjectImporter", i, "")
    /\ UNCHANGED <<kits, besideImporter>>

\* ProjectImporter::~ProjectImporter
DestroyImporter(i) ==
    /\ i \in importers
    /\ importers' = importers \ {i}
    /\ kits' = [k \in KitIds |->
                   IF k \in RegisteredKits
                   THEN RemoveProjectOf(kits[k], ProjectPathOf[i])
                   ELSE kits[k]]
    /\ temporaryHandlers' = [temporaryHandlers EXCEPT ![i] = <<>>]
    /\ lastKitCall' = KitCall("~ProjectImporter", i, "")
    /\ UNCHANGED besideImporter

\* ProjectImporter::createTemporaryKit; the setup function may name the kit.
CreateTemporaryKit(i, k) ==
    /\ i \in importers
    /\ ~kits[k].created
    /\ \E named \in BOOLEAN, name \in GivenNames :
          LET fresh == [created |-> TRUE, registered |-> FALSE,
                        displayName |-> <<"Imported Kit">>, values |-> <<>>]
              marked == MarkKitAsTemporaryOf(fresh)
              setUp == IF named THEN [marked EXCEPT !.displayName = name] ELSE marked
          IN  kits' = [kits EXCEPT ![k] = [setUp EXCEPT !.registered = TRUE]]
    /\ lastKitCall' = KitCall("createTemporaryKit", i, k)
    /\ UNCHANGED <<importers, temporaryHandlers, besideImporter>>

\* Kit::setUnexpandedDisplayName, by the user
Rename(k, name) ==
    /\ k \in RegisteredKits
    /\ kits' = [kits EXCEPT ![k].displayName = name]
    /\ lastKitCall' = KitCall("setUnexpandedDisplayName", "", k)
    /\ UNCHANGED <<importers, temporaryHandlers, besideImporter>>

\* ProjectImporter::addProject
AddProject(i, k) ==
    /\ i \in importers
    /\ k \in RegisteredKits
    /\ Len(Value(kits[k], TEMPORARY_OF_PROJECTS, <<>>)) < MaxProjects
    /\ kits' = [kits EXCEPT ![k] = AddProjectOf(@, ProjectPathOf[i])]
    /\ lastKitCall' = KitCall("addProject", i, k)
    /\ UNCHANGED <<importers, temporaryHandlers, besideImporter>>

\* ProjectImporter::removeProject
RemoveProject(i, k) ==
    /\ i \in importers
    /\ k \in RegisteredKits
    /\ kits' = [kits EXCEPT ![k] = RemoveProjectOf(@, ProjectPathOf[i])]
    /\ lastKitCall' = KitCall("removeProject", i, k)
    /\ UNCHANGED <<importers, temporaryHandlers, besideImporter>>

\* ProjectImporter::makePersistent
MakePersistent(i, k) ==
    /\ i \in importers
    /\ k \in RegisteredKits
    /\ IF ~HasValue(kits[k], KIT_IS_TEMPORARY)
       THEN /\ kits' = kits
            /\ lastKitCall' = KitCall("makePersistent", i, k)
       ELSE /\ kits' = [o \in KitIds |->
                           IF o = k THEN MakePersistentOf(kits[k])
                           ELSE IF o \in RegisteredKits
                           THEN MarkPermanentIn(kits[o], kits[k], temporaryHandlers[i], 1)
                           ELSE kits[o]]
            /\ lastKitCall' = [KitCall("makePersistent", i, k) EXCEPT
                                  !.persisted = PersistCalls(kits[k], temporaryHandlers[i])]
    /\ UNCHANGED <<importers, temporaryHandlers, besideImporter>>

\* ProjectImporter::useTemporaryKitInformation
UseTemporaryKitInformation(i, id) ==
    /\ i \in importers
    /\ temporaryHandlers' =
          IF \E n \in 1..Len(temporaryHandlers[i]) : temporaryHandlers[i][n] = id
          THEN temporaryHandlers
          ELSE [temporaryHandlers EXCEPT ![i] = Append(@, id)]
    /\ lastKitCall' = KitCall("useTemporaryKitInformation", i, "")
    /\ UNCHANGED <<kits, importers, besideImporter>>

\* ProjectImporter::addTemporaryData
AddTemporaryData(i, id, cleanupData, k) ==
    /\ i \in importers
    /\ k \in RegisteredKits
    /\ LET tmp == Value(kits[k], FullId(id), <<>>)
       IN  kits' =
              IF /\ \E n \in 1..Len(temporaryHandlers[i]) : temporaryHandlers[i][n] = id
                 /\ ~\E n \in 1..Len(tmp) : tmp[n] = cleanupData
              THEN [kits EXCEPT ![k] = SetValue(@, FullId(id), Append(tmp, cleanupData))]
              ELSE kits
    /\ lastKitCall' = KitCall("addTemporaryData", i, k)
    /\ UNCHANGED <<importers, temporaryHandlers, besideImporter>>

NextImporter ==
    \/ \E i \in ImporterIds : ConstructImporter(i)
    \/ \E i \in ImporterIds : DestroyImporter(i)
    \/ \E i \in ImporterIds, k \in KitIds : CreateTemporaryKit(i, k)
    \/ \E k \in KitIds, name \in GivenNames : Rename(k, name)
    \/ \E i \in ImporterIds, k \in KitIds : AddProject(i, k)
    \/ \E i \in ImporterIds, k \in KitIds : RemoveProject(i, k)
    \/ \E i \in ImporterIds, k \in KitIds : MakePersistent(i, k)
    \/ \E i \in ImporterIds, id \in HandlerIds : UseTemporaryKitInformation(i, id)
    \/ \E i \in ImporterIds, id \in HandlerIds, cleanupData \in TemporaryData, k \in KitIds :
          AddTemporaryData(i, id, cleanupData, k)

SpecImporter == InitPlugins /\ [][NextImporter]_vars

\* ============================================ MultiDefinitionDownloader
\* The elements of a list.
Elements(list) == {list[n] : n \in 1..Len(list)}

\* The lists that hold each element of a set once (QMap::keys of a map with
\* these keys, whatever their order).
ListsOf(set) ==
    {l \in UNION {[1..n -> set] : n \in {Cardinality(set)}} : Elements(l) = set}

\* MultiDefinitionDownloader::downloadDefinitions: one downloader per URL.
DownloadDefinitionsWith(urls) ==
    /\ downloaders' = urls
    /\ scheduled' = Append(scheduled, urls)

\* Manager::downloadDefinitions: a MultiDefinitionDownloader is made with the
\* names registered at the time and starts on the URLs chosen.
ManagerDownloadDefinitions(urls, registered) ==
    /\ multiDownloader.state = "none"
    /\ urls # {}
    /\ multiDownloader' = [state |-> "downloading", installed |-> registered]
    /\ installedDefinitions' \in ListsOf(registered)
    /\ referencedDefinitions' = {}
    /\ DownloadDefinitionsWith(urls)
    /\ UNCHANGED <<messageBox, finishedEmitted, besideDownloader>>

\* MultiDefinitionDownloader::downloadReferencedDefinition
DownloadReferencedDefinitionOf(name) ==
    IF name \in Elements(installedDefinitions)
    THEN UNCHANGED <<referencedDefinitions, installedDefinitions>>
    ELSE /\ referencedDefinitions' = referencedDefinitions \cup {name}
         /\ installedDefinitions' = Append(installedDefinitions, name)

\* A downloader of the round under way found a reference in its file. The
\* downloaders run to their end before the round's future finishes, so none
\* does once downloadDefinitionsFinished has begun and deleted them.
DownloadReferencedDefinition(d, name) ==
    /\ multiDownloader.state = "downloading"
    /\ ~messageBox.open
    /\ d \in downloaders
    /\ name \in ReferencesOf[d]
    /\ DownloadReferencedDefinitionOf(name)
    /\ UNCHANGED <<multiDownloader, downloaders, messageBox, scheduled, finishedEmitted,
                   besideDownloader>>

\* MultiDefinitionDownloader::downloadDefinitionsFinished from the reading
\* of the referenced definitions on: the next round, or finished(), on which
\* Manager::downloadDefinitionsFinished deletes the downloader.
StartReferencedDownloads ==
    LET urls == {n \in referencedDefinitions : n \in AvailableDefinitions}
    IN  /\ referencedDefinitions' = {}
        /\ IF urls = {}
           THEN /\ finishedEmitted' = finishedEmitted + 1
                /\ multiDownloader' = [multiDownloader EXCEPT !.state = "deleted"]
                /\ downloaders' = {}
                /\ UNCHANGED scheduled
           ELSE /\ DownloadDefinitionsWith(urls)
                /\ UNCHANGED <<finishedEmitted, multiDownloader>>

\* MultiDefinitionDownloader::downloadDefinitionsFinished: the round's future
\* finished, each download with a status. The downloaders are deleted; with
\* no error the handler goes on at once, with an error it opens the modal
\* dialog and goes on when QMessageBox::critical returns. Until then
\* m_downloaders holds the deleted downloaders and the referenced
\* definitions are still pending.
DownloadDefinitionsFinished(status) ==
    /\ multiDownloader.state = "downloading"
    /\ ~messageBox.open
    /\ LET failed == {d \in downloaders : status[d] # "Ok"}
       IN  IF failed = {}
           THEN /\ StartReferencedDownloads
                /\ UNCHANGED messageBox
           ELSE /\ messageBox' = [open |-> TRUE,
                                  all |-> failed = downloaders,
                                  writeError |-> \E d \in failed : status[d] = "WriteError"]
                /\ UNCHANGED <<referencedDefinitions, downloaders, scheduled,
                               finishedEmitted, multiDownloader>>
    /\ UNCHANGED <<installedDefinitions, besideDownloader>>

\* QMessageBox::critical returns: the user closed the download error dialog,
\* and downloadDefinitionsFinished goes on.
MessageBoxClosed ==
    /\ messageBox.open
    /\ messageBox' = NoMessageBox
    /\ StartReferencedDownloads
    /\ UNCHANGED <<installedDefinitions, besideDownloader>>

\* The round's future finished, with whatever statuses.
FutureFinished ==
    \E status \in [downloaders -> DownloadStatuses] : DownloadDefinitionsFinished(status)

NextDownload ==
    \/ \E urls \in SUBSET AvailableDefinitions, registered \in SUBSET DownloadNames :
          ManagerDownloadDefinitions(urls, registered)
    \/ \E d \in DownloadNames, name \in DownloadNames : DownloadReferencedDefinition(d, name)
    \/ FutureFinished
    \/ MessageBoxClosed

\* Every round's future finishes: QtConcurrent::map runs each downloader to
\* its end, and the watcher delivers finished(); and the user closes every
\* download error dialog.
SpecDownload ==
    /\ InitPlugins
    /\ [][NextDownload]_vars
    /\ WF_vars(FutureFinished)
    /\ WF_vars(MessageBoxClosed)

\* ====================================================== OutputTabWidget
\* m_ui.m_stackedWidget->isVisible(): shown itself and every ancestor visible.
StackedIsVisible == ~stackedHidden /\ windowVisible

\* OutputTabWidget::showPane(index), the button being checked already or not:
\* setChecked(true) emits toggled(true), which stops the button's alert.
ShowPaneOf(index, buttons, animators) ==
    /\ currentPane' = index
    /\ checked' = [buttons EXCEPT ![index] = TRUE]
    /\ animator' = IF buttons[index] THEN animators
                   ELSE [animators EXCEPT ![index].running = FALSE]
    /\ stackedHidden' = FALSE

\* What showPane emits.
ShowPaneEmits == IF StackedIsVisible THEN <<>> ELSE <<"visibilityChanged(true)">>

\* buttonClicked that leaves the other buttons as they are.
ButtonClickedKeepingOthers(index, para, buttons, animators) ==
    IF para
    THEN /\ ShowPaneOf(index, buttons, animators)
         /\ lastPaneCall' = PaneCall("buttonClicked", index, para, ShowPaneEmits, FALSE)
    ELSE /\ stackedHidden' = TRUE
         /\ checked' = buttons
         /\ animator' = animators
         /\ lastPaneCall' = PaneCall("buttonClicked", index, para,
                                     <<"visibilityChanged(false)">>, FALSE)
         /\ UNCHANGED currentPane

\* OutputTabWidget::buttonClicked(para) for the button `index`, the buttons
\* and their animators being as the click left them; close() is the else branch.
ButtonClicked(index, para, buttons, animators) ==
    IF para
    THEN /\ ShowPaneOf(index, [b \in PaneIds |-> IF b # index THEN FALSE ELSE buttons[b]],
                       animators)
         /\ lastPaneCall' = PaneCall("buttonClicked", index, para, ShowPaneEmits, FALSE)
    ELSE /\ stackedHidden' = TRUE
         /\ checked' = buttons
         /\ animator' = animators
         /\ lastPaneCall' = PaneCall("buttonClicked", index, para,
                                     <<"visibilityChanged(false)">>, FALSE)
         /\ UNCHANGED currentPane

\* OutputTabWidget::addPane: the first widget added to the stacked widget
\* becomes its current one.
AddPane ==
    /\ pages < MaxPanes
    /\ pages' = pages + 1
    /\ currentPane' = IF currentPane = 0 THEN 1 ELSE currentPane
    /\ lastPaneCall' = PaneCall("addPane", pages + 1, FALSE, <<>>, FALSE)
    /\ UNCHANGED <<checked, animator, stackedHidden, windowVisible, shownByCall, besideOutput>>

\* The user clicks a pane button: the checkable button toggles, emits
\* toggled (the alert stops if it is checked now) and then clicked.
Click(b) ==
    /\ b \in 1..pages
    /\ LET para == ~checked[b]
       IN  ButtonClicked(b, para,
                         [checked EXCEPT ![b] = para],
                         IF para THEN [animator EXCEPT ![b].running = FALSE] ELSE animator)
    /\ UNCHANGED <<pages, windowVisible, shownByCall, besideOutput>>

\* OutputTabWidget::showAlert, on dataChanged of pane b; startAlert resets
\* m_animCounter and fades in.
ShowAlert(b) ==
    /\ b \in 1..pages
    /\ IF ~checked[b]
       THEN /\ animator' = [animator EXCEPT ![b] = [running |-> TRUE, animCounter |-> 0]]
            /\ lastPaneCall' = PaneCall("showAlert", b, FALSE, <<>>, TRUE)
       ELSE /\ lastPaneCall' = PaneCall("showAlert", b, FALSE, <<>>, FALSE)
            /\ UNCHANGED animator
    /\ UNCHANGED <<pages, checked, currentPane, stackedHidden, windowVisible, shownByCall, besideOutput>>

\* The animator of button b finished a fade: the next one starts unless it
\* was the last of the alert.
AnimatorFinished(b) ==
    /\ b \in 1..pages
    /\ animator[b].running
    /\ animator' = [animator EXCEPT ![b] =
                       [running |-> animator[b].animCounter + 1 < AlertFades,
                        animCounter |-> animator[b].animCounter + 1]]
    /\ lastPaneCall' = PaneCall("animator.finished", b, FALSE, <<>>, FALSE)
    /\ UNCHANGED <<pages, checked, currentPane, stackedHidden, windowVisible, shownByCall, besideOutput>>

\* OutputTabWidget::showPane called on the pane of an index, not by a button
\* click: no other button is unchecked. An index without a pane does nothing.
ShowPane(index) ==
    /\ IF index \in 1..pages
       THEN /\ ShowPaneOf(index, checked, animator)
            /\ shownByCall' = TRUE
            /\ lastPaneCall' = PaneCall("showPane", index, TRUE, ShowPaneEmits, FALSE)
       ELSE /\ lastPaneCall' = PaneCall("showPane", index, FALSE, <<>>, FALSE)
            /\ UNCHANGED <<checked, animator, currentPane, stackedHidden, shownByCall>>
    /\ UNCHANGED <<pages, windowVisible, besideOutput>>

\* OutputTabWidget::close called, not by a button click: the buttons stay.
Close ==
    /\ stackedHidden' = TRUE
    /\ lastPaneCall' = PaneCall("close", 0, FALSE, <<"visibilityChanged(false)">>, FALSE)
    /\ UNCHANGED <<pages, checked, animator, currentPane, windowVisible, shownByCall,
                   besideOutput>>

\* The window that holds the widget is shown or hidden.
SetWindowVisible(visible) ==
    /\ windowVisible # visible
    /\ windowVisible' = visible
    /\ lastPaneCall' = PaneCall("setVisible", 0, visible, <<>>, FALSE)
    /\ UNCHANGED <<pages, checked, animator, currentPane, stackedHidden, shownByCall, besideOutput>>

NextOutput ==
    \/ AddPane
    \/ \E b \in PaneIds : Click(b)
    \/ \E index \in PaneIds : ShowPane(index)
    \/ Close
    \/ \E b \in AlertingPanes : ShowAlert(b)
    \/ \E b \in PaneIds : AnimatorFinished(b)
    \/ \E visible \in BOOLEAN : SetWindowVisible(visible)

SpecOutput == InitPlugins /\ [][NextOutput]_vars

\* ================================================================ claims
\* The calls that incorporate an updater result.
IncorporatingOps == {"incorporateUpdaterResult", "parse", "reparse"}

\* The step just taken is a call of one of `ops` through the non-null
\* handle h that returned normally.
Ran(ops, h) ==
    /\ last'.op \in ops
    /\ last'.handle = h
    /\ ~last'.wasNull
    /\ last'.outcome = "ok"

\* The last call was one of `ops` through handle h, still non-null, and
\* returned normally.
Returned(ops, h) ==
    /\ last.op \in ops
    /\ last.handle = h
    /\ ~last.wasNull
    /\ ~IsNull(h)
    /\ last.outcome = "ok"

\* C1: incorporating a result that did not fail clears needsToBeReparsed
\* exactly when the result says a reparse happened and carries the Document's
\* current reparse time point; in every other case the flag keeps its value.
C1_ClearsOnlyOnCurrentReparse ==
    [][\A h \in Handles :
          (Ran(IncorporatingOps, h) /\ ~last'.result.hasParseOrReparseFailed)
          => store'[handles[h]].needsToBeReparsed =
                 IF /\ last'.result.reparsed
                    /\ last'.result.needsToBeReparsedChangeTimePoint =
                           store[handles[h]].needsToBeReparsedChangeTimePoint
                 THEN FALSE
                 ELSE store[handles[h]].needsToBeReparsed]_vars

\* C1 witness: a reparse result stamped T1 was incorporated after setDirty had
\* moved the Document to T2 > T1, and the Document still needs a reparse.
C1_Witness ==
    \E h \in Handles :
        /\ Returned({"incorporateUpdaterResult"}, h)
        /\ last.result.reparsed
        /\ ~last.result.hasParseOrReparseFailed
        /\ last.result.needsToBeReparsedChangeTimePoint <
               Data(h).needsToBeReparsedChangeTimePoint
        /\ Data(h).needsToBeReparsed

\* C2: no dirty mark is lost: when setDirty ran on a Document after its update
\* input was built and before the input's result, not failed, is incorporated,
\* the Document needs a reparse after the incorporation.
C2_NoDirtyMarkLost ==
    [][\A h \in Handles :
          (/\ Ran({"incorporateUpdaterResult"}, h)
           /\ markedSinceBuilt[handles[h]]
           /\ ~last'.result.hasParseOrReparseFailed)
          => store'[handles[h]].needsToBeReparsed]_vars

\* C3: after parse() or reparse() incorporated a failed result the Document
\* has failed, is not intact and needs no reparse.
C3_FailedResultStopsRetry ==
    \A h \in Handles :
        (Returned(IncorporatingOps, h) /\ last.result.hasParseOrReparseFailed)
        => /\ Data(h).hasParseOrReparseFailed
           /\ ~IsIntact(h)
           /\ ~Data(h).needsToBeReparsed

\* C3 witness: parse() came back failed on a Document whose file exists.
C3_Witness ==
    \E h \in Handles :
        /\ Returned({"parse"}, h)
        /\ last.result.hasParseOrReparseFailed
        /\ Data(h).hasParseOrReparseFailed
        /\ FileExistsOf(Data(h))

\* C4: a Document is intact exactly when it is not null, its file exists on
\* the disk and its last parse or reparse did not fail.
C4_IntactIffNonNullFileExistsNotFailed ==
    \A h \in Handles :
        IsIntact(h) <=> /\ handles[h] # NullDoc
                        /\ store[handles[h]].filePath \in disk
                        /\ ~store[handles[h]].hasParseOrReparseFailed

\* C4 witness: a Document that is not null and has not failed is not intact,
\* its file being gone.
C4_Witness ==
    \E h \in Handles :
        /\ ~IsNull(h)
        /\ ~Data(h).hasParseOrReparseFailed
        /\ Data(h).filePath \notin disk
        /\ ~IsIntact(h)

\* C5 as stated: after parse() incorporated a result that neither failed nor
\* reparsed, the Document needs no reparse and its dependencies are the
\* result's.
C5_ParseRoundTripAsStated ==
    \A h \in Handles :
        (/\ Returned({"parse"}, h)
         /\ ~last.result.hasParseOrReparseFailed
         /\ ~last.result.reparsed)
        => /\ ~Data(h).needsToBeReparsed
           /\ Data(h).dependedFilePaths = last.result.dependedOnFilePaths

\* C5 amended: parse() incorporating a result that neither failed nor reparsed
\* leaves needsToBeReparsed as it was, and makes the dependencies the result's
\* exactly when the result has its parse time point set; otherwise the
\* dependencies stay as they were.
C5_ParseRoundTrip ==
    [][\A h \in Handles :
          (/\ Ran({"parse"}, h)
           /\ ~last'.result.hasParseOrReparseFailed
           /\ ~last'.result.reparsed)
          => /\ store'[handles[h]].needsToBeReparsed =
                    store[handles[h]].needsToBeReparsed
             /\ store'[handles[h]].dependedFilePaths =
                    IF last'.result.parseTimePointIsSet
                    THEN last'.result.dependedOnFilePaths
                    ELSE store[handles[h]].dependedFilePaths]_vars

\* C5 witness: parse() parsed, did not reparse, the dependencies are the
\* result's and the Document, dirty before, still needs its reparse.
C5_Witness ==
    \E h \in Handles :
        /\ Returned({"parse"}, h)
        /\ ~last.result.hasParseOrReparseFailed
        /\ ~last.result.reparsed
        /\ last.result.parseTimePointIsSet
        /\ Data(h).dependedFilePaths = last.result.dependedOnFilePaths
        /\ Data(h).dependedFilePaths # {MainFile}
        /\ Data(h).needsToBeReparsed

\* C6: setDirty always leaves needsToBeReparsed true, and the reparse time
\* point it writes is never earlier than the one it replaces.
C6_SetDirtySetsFlagAndTimeMonotone ==
    [][\A h \in Handles :
          Ran({"setDirty"}, h)
          => /\ store'[handles[h]].needsToBeReparsed
             /\ store'[handles[h]].needsToBeReparsedChangeTimePoint >=
                    store[handles[h]].needsToBeReparsedChangeTimePoint
             /\ store'[handles[h]].needsToBeReparsedChangeTimePoint = now]_vars

\* C6 witness: setDirty ran on a Document created at an earlier reading of
\* the clock.
C6_Witness ==
    \E h \in Handles :
        /\ Returned({"setDirty"}, h)
        /\ Data(h).needsToBeReparsed
        /\ Data(h).needsToBeReparsedChangeTimePoint = now
        /\ Data(h).lastProjectPartChangeTimePoint < now

\* C7: setDirtyIfDependencyIsMet with the Document's own file, gone from the
\* disk, changes nothing of the Document: neither flag nor time point.
C7_DeletedMainFileDoesNotDirty ==
    [][\A h \in Handles :
          (/\ Ran({"setDirtyIfDependencyIsMet"}, h)
           /\ last'.path = store[handles[h]].filePath
           /\ store[handles[h]].filePath \notin disk)
          => store' = store]_vars

\* C7 witness: the call was made with the own file, which is a dependency and
\* is gone, on a Document needing no reparse, at a later clock reading than
\* its reparse time point.
C7_Witness ==
    \E h \in Handles :
        /\ Returned({"setDirtyIfDependencyIsMet"}, h)
        /\ last.path = Data(h).filePath
        /\ last.path \in Data(h).dependedFilePaths
        /\ last.path \notin disk
        /\ ~Data(h).needsToBeReparsed
        /\ Data(h).needsToBeReparsedChangeTimePoint < now

\* C8: setDirtyIfDependencyIsMet(path) runs setDirty exactly when path is a
\* dependency and is either not the own file or the own file exists; otherwise
\* it leaves the Document as it was.
C8_DirtyIffDependencyIsMet ==
    [][\A h \in Handles :
          Ran({"setDirtyIfDependencyIsMet"}, h)
          => IF /\ last'.path \in store[handles[h]].dependedFilePaths
                /\ \/ last'.path # store[handles[h]].filePath
                   \/ store[handles[h]].filePath \in disk
             THEN store'[handles[h]] =
                      [store[handles[h]] EXCEPT
                          !.needsToBeReparsed = TRUE,
                          !.needsToBeReparsedChangeTimePoint = now]
             ELSE store' = store]_vars

\* C8 witness: a dependency other than the own file changed while the own
\* file is gone, and the Document needs a reparse as of now.
C8_Witness ==
    \E h \in Handles :
        /\ Returned({"setDirtyIfDependencyIsMet"}, h)
        /\ last.path # Data(h).filePath
        /\ last.path \in Data(h).dependedFilePaths
        /\ Data(h).filePath \notin disk
        /\ Data(h).needsToBeReparsed
        /\ Data(h).needsToBeReparsedChangeTimePoint = now
        /\ Data(h).lastProjectPartChangeTimePoint < now

\* C9: after reparse() incorporated a result that did not fail and reparsed,
\* the Document's dependencies are the result's and all of them are watched.
C9_ReparseUpdatesAndWatchesDependencies ==
    \A h \in Handles :
        (/\ Returned({"reparse"}, h)
         /\ ~last.result.hasParseOrReparseFailed
         /\ last.result.reparsed)
        => /\ Data(h).dependedFilePaths = last.result.dependedOnFilePaths
           /\ Data(h).dependedFilePaths \subseteq watchedFiles

\* C9 witness: the Document depended on /a.h (still watched); reparse()
\* reported /b.h and no longer /a.h: the dependencies are the main file and
\* /b.h, and /b.h is watched.
C9_Witness ==
    \E h \in Handles :
        /\ Returned({"reparse"}, h)
        /\ ~last.result.hasParseOrReparseFailed
        /\ last.result.reparsed
        /\ Data(h).dependedFilePaths = {MainFile, "/b.h"}
        /\ {MainFile, "/a.h", "/b.h"} \subseteq watchedFiles

\* C10: every call on a null Document other than isNull and reset ends with
\* DocumentIsNullException.
C10_NullDocumentRejectsEveryCall ==
    (last.wasNull /\ last.op \notin {"isNull", "reset", "findOrCreate"})
    => last.outcome = "DocumentIsNullException"

\* C11 as stated: a findOrCreate that asks for the existence check while the
\* file is absent does not throw, and leaves a non-null Document that is not
\* intact.
C11_CheckedConstructionDoesNotThrow ==
    (last.op = "findOrCreate" /\ last.check /\ MainFile \notin disk)
    => /\ last.outcome = "ok"
       /\ ~IsNull(last.handle)
       /\ ~IsIntact(last.handle)

\* C11: a findOrCreate that has to construct a Document for an absent file
\* throws DocumentFileDoesNotExistException and constructs nothing when the
\* existence check is asked for; without the check it returns a non-null
\* Document that is not intact, whose dependedFilePaths then throws.
C11_ConstructionThrowsIffChecked ==
    [][\A h \in Handles :
          (/\ last'.op = "findOrCreate"
           /\ last'.handle = h
           /\ FindDocument(MainFile, ProjectPartId) = NullDoc
           /\ MainFile \notin disk)
          => IF last'.check
             THEN /\ last'.outcome = "DocumentFileDoesNotExistException"
                  /\ UNCHANGED <<store, documents, handles, watchedFiles>>
             ELSE /\ last'.outcome = "ok"
                  /\ handles'[h] # NullDoc
                  /\ handles'[h] \in documents'
                  /\ ~IsIntact(h)'
                  /\ DependedFilePathsOutcome(h)' =
                         "DocumentFileDoesNotExistException"]_vars

\* The checked construction for an absent file has thrown, and the
\* collection holds no Document.
C11_Witness ==
    /\ last.op = "findOrCreate"
    /\ last.check
    /\ last.outcome = "DocumentFileDoesNotExistException"
    /\ MainFile \notin disk
    /\ documents = {}

\* The calls that mark a Document dirty, build an update input or set what
\* the editor tells about the Document.
MarkingAndSettingOps ==
    {"setDirty", "setDirtyIfProjectPartIsOutdated", "setDirtyIfDependencyIsMet",
     "createUpdateInput", "setDocumentRevision", "setIsUsedByCurrentEditor",
     "setIsVisibleInEditor"}

\* Handle h holds, before and after the step, the one Document, which has
\* failed to parse before the step and has not after it.
LeavesFailed(h) ==
    /\ ~IsNull(h)
    /\ handles'[h] = handles[h]
    /\ Data(h).hasParseOrReparseFailed
    /\ ~store'[handles[h]].hasParseOrReparseFailed

\* C12 as stated: a Document that has failed to parse stays failed through
\* every call but an explicit parse().
C12_OnlyParseLeavesFailed ==
    [][\A h \in Handles : LeavesFailed(h) => last'.op = "parse"]_vars

\* C12: a Document that has failed to parse is not intact and stays failed
\* through setDirty, setDirtyIfProjectPartIsOutdated,
\* setDirtyIfDependencyIsMet, createUpdateInput and the setters of the
\* revision and the editor flags, none of which incorporates a result; it
\* leaves the failed state only when a result that did not fail is
\* incorporated (by parse, reparse or incorporateUpdaterResult) or by
\* setHasParseOrReparseFailed(false).
C12_FailedUntilResultOrSetter ==
    [][\A h \in Handles :
          /\ (~IsNull(h) /\ Data(h).hasParseOrReparseFailed) => ~IsIntact(h)
          /\ LeavesFailed(h)
             => \/ /\ last'.op \in IncorporatingOps
                   /\ ~last'.result.hasParseOrReparseFailed
                \/ last'.op = "setHasParseOrReparseFailed"
          /\ (Ran(MarkingAndSettingOps, h) /\ Data(h).hasParseOrReparseFailed)
             => /\ store'[handles[h]].hasParseOrReparseFailed
                /\ store'[handles[h]].dependedFilePaths = Data(h).dependedFilePaths
                /\ store'[handles[h]].lastProjectPartChangeTimePoint =
                       Data(h).lastProjectPartChangeTimePoint
                /\ last'.result = NoResult
                /\ watchedFiles' = watchedFiles]_vars

\* A Document that failed to parse has been marked dirty and is still failed.
C12_Witness ==
    \E h \in Handles :
        /\ Returned({"setDirty", "setDirtyIfDependencyIsMet"}, h)
        /\ Data(h).hasParseOrReparseFailed
        /\ Data(h).needsToBeReparsed
        /\ watchedFiles = {}

\* C13: after remove the collection holds no Document for the key, and a
\* findOrCreate that finds none returns a newly constructed backing state,
\* other than the one the caller held and than every one alive before, in
\* the state of the constructor: dependencies {own file path}, not needing
\* a reparse, not failed, not used by the current editor, not visible,
\* revision 0, both time points the clock reading of the construction.
C13_RemoveThenFindOrCreateIsFresh ==
    [][/\ last'.op = "remove"
          => ~\E o \in documents' :
                 /\ store'[o].filePath = last'.path
                 /\ store'[o].projectPartId = last'.projectPartId
       /\ \A h \in Handles :
            (/\ last'.op = "findOrCreate"
             /\ last'.handle = h
             /\ last'.outcome = "ok"
             /\ FindDocument(MainFile, ProjectPartId) = NullDoc)
            => /\ handles'[h] # NullDoc
               /\ handles'[h] # handles[h]
               /\ ~store[handles'[h]].live
               /\ documents' = {handles'[h]}
               /\ store'[handles'[h]].filePath = MainFile
               /\ store'[handles'[h]].projectPartId = ProjectPartId
               /\ store'[handles'[h]].dependedFilePaths = {MainFile}
               /\ ~store'[handles'[h]].needsToBeReparsed
               /\ ~store'[handles'[h]].hasParseOrReparseFailed
               /\ ~store'[handles'[h]].isUsedByCurrentEditor
               /\ ~store'[handles'[h]].isVisibleInEditor
               /\ store'[handles'[h]].documentRevision = 0
               /\ store'[handles'[h]].lastProjectPartChangeTimePoint = now
               /\ store'[handles'[h]].needsToBeReparsedChangeTimePoint = now
               /\ ~inflight'[handles'[h]].built]_vars

\* A Document has been constructed in the second slot, the removed one still
\* held by the caller in the first, after a Document had registered the
\* dependencies of a result.
C13_Witness ==
    \E h \in Handles :
        /\ Returned({"findOrCreate"}, h)
        /\ handles[h] = 2
        /\ documents = {2}
        /\ Data(h) = NewDocumentData(MainFile, ProjectPartId, now)
        /\ "/b.h" \in watchedFiles

\* The Documents of the collection have pairwise different keys.
OnePerKey ==
    \A o1, o2 \in documents :
        (/\ store[o1].filePath = store[o2].filePath
         /\ store[o1].projectPartId = store[o2].projectPartId) => o1 = o2

\* C14 as stated: at most one backing state per (file path, project part)
\* is alive.
C14_OneLiveBackingStatePerKey ==
    \A o1, o2 \in ObjIds :
        (/\ store[o1].live
         /\ store[o2].live
         /\ store[o1].filePath = store[o2].filePath
         /\ store[o1].projectPartId = store[o2].projectPartId) => o1 = o2

\* C14: the collection holds at most one backing state per (file path,
\* project part), and a findOrCreate for a key it holds hands out that
\* backing state, unchanged, and constructs nothing.  A backing state that
\* was removed stays alive beside it for as long as a handle refers to it.
C14_OneDocumentPerKeyInCollection ==
    [][/\ OnePerKey'
       /\ \A o \in documents' : store'[o].live
       /\ \A h \in Handles :
            (/\ last'.op = "findOrCreate"
             /\ last'.handle = h
             /\ FindDocument(last'.path, last'.projectPartId) # NullDoc)
            => /\ last'.outcome = "ok"
               /\ handles'[h] = FindDocument(last'.path, last'.projectPartId)
               /\ store'[handles'[h]] = store[handles'[h]]
               /\ documents' = documents
               /\ \A o \in ObjIds : store'[o].live => store[o].live]_vars

\* The second handle has been handed the dirty Document the first holds,
\* and the collection holds a Document for each project part.
C14_Witness ==
    /\ last.op = "findOrCreate"
    /\ last.handle = "h2"
    /\ handles["h2"] = handles["h1"]
    /\ ~IsNull("h1")
    /\ Data("h1").needsToBeReparsed
    /\ Cardinality(documents) = 2

\* C15 as stated: the watched files are the union of the dependencies of
\* the Documents the collection holds.
C15_WatchedIsUnionOfDependencies ==
    watchedFiles = UNION {store[o].dependedFilePaths : o \in documents}

\* C15: the watched files only grow: a step changes them only by
\* incorporating a result that did not fail, which adds the Document's
\* dependencies to them, and neither replacing a Document's dependencies nor
\* removing a Document takes a path out.  They hold the dependencies of every
\* live Document but for its own file, which the construction does not
\* register.
C15_WatchedGrowsByRegisteredDependencies ==
    [][/\ watchedFiles \subseteq watchedFiles'
       /\ \A o \in ObjIds :
            store'[o].live
            => store'[o].dependedFilePaths \subseteq
                   watchedFiles' \cup {store'[o].filePath}
       /\ watchedFiles' # watchedFiles
          => /\ last'.op \in IncorporatingOps
             /\ ~last'.result.hasParseOrReparseFailed
             /\ watchedFiles' =
                    watchedFiles \cup store'[handles[last'.handle]].dependedFilePaths
       /\ last'.op \in {"findOrCreate", "remove"} => watchedFiles' = watchedFiles]_vars

\* The Document has been removed from the collection; every path is watched,
\* and the removed Document, still held, depends on its own file only.
C15_Witness ==
    /\ last.op = "remove"
    /\ documents = {}
    /\ watchedFiles = Paths
    /\ ~IsNull("h1")
    /\ Data("h1").dependedFilePaths = {MainFile}

\* C16: remove raises no error, leaves no Document for the key in the
\* collection, and for a key the collection does not hold changes nothing;
\* a second remove of the key therefore adds nothing to the first.
C16_RemoveIsIdempotent ==
    [][last'.op = "remove"
       => /\ last'.outcome = "ok"
          /\ ~\E o \in documents' :
                 /\ store'[o].filePath = last'.path
                 /\ store'[o].projectPartId = last'.projectPartId
          /\ FindDocument(last'.path, last'.projectPartId) = NullDoc
             => UNCHANGED <<pluginVars, now, unsavedFiles, disk, projectPartChange, store, documents,
                            watchedFiles, handles, inflight, markedSinceBuilt>>
          /\ \A o \in documents :
                 store[o].projectPartId # last'.projectPartId
                 => o \in documents' /\ store'[o] = store[o]]_vars

\* The second project part's Document has been removed while a job's
\* handle holds it; the first project part's Document is in the collection.
C16_Witness ==
    /\ last.op = "remove"
    /\ last.projectPartId = "P2"
    /\ ~IsNull("h2")
    /\ Data("h2").projectPartId = "P2"
    /\ handles["h2"] \notin documents
    /\ Cardinality(documents) = 1

\* addWatchedFiles on the files watched now: registering the set a puts all
\* of it in and takes nothing out, twice is the same as once, and a and any
\* other dependency set in either order give the same files.
AddWatchedFilesIsUnion(a) ==
    \A b \in DepSets :
        /\ a \subseteq AddWatchedFiles(watchedFiles, a)
        /\ watchedFiles \subseteq AddWatchedFiles(watchedFiles, a)
        /\ AddWatchedFiles(AddWatchedFiles(watchedFiles, a), a) =
               AddWatchedFiles(watchedFiles, a)
        /\ AddWatchedFiles(AddWatchedFiles(watchedFiles, a), b) =
               AddWatchedFiles(AddWatchedFiles(watchedFiles, b), a)

\* C17: addWatchedFiles is idempotent and order-independent, and when the
\* Documents of several handles incorporate results in any interleaving,
\* each incorporation of a result that did not fail leaves the watched files
\* as they were plus the Document's dependencies, and no step takes a
\* watched file out: no registration is lost.
C17_NoRegistrationLost ==
    [][/\ watchedFiles \subseteq watchedFiles'
       /\ \A h \in Handles :
            (Ran(IncorporatingOps, h) /\ ~last'.result.hasParseOrReparseFailed)
            => /\ AddWatchedFilesIsUnion(store'[handles[h]].dependedFilePaths)
               /\ store'[handles[h]].dependedFilePaths \subseteq watchedFiles'
               /\ watchedFiles' =
                      watchedFiles \cup store'[handles[h]].dependedFilePaths
               /\ \A other \in Handles :
                      (~IsNull(other) /\ Data(other).dependedFilePaths
                                            \subseteq watchedFiles)
                      => store'[handles[other]].dependedFilePaths
                             \subseteq watchedFiles']_vars

\* The Documents of the two handles differ; each has had its dependencies
\* registered, the second after the first, and all of them are watched.
C17_Witness ==
    /\ last.op = "incorporateUpdaterResult"
    /\ last.handle = "h2"
    /\ ~IsNull("h1")
    /\ ~IsNull("h2")
    /\ handles["h1"] # handles["h2"]
    /\ Data("h1").dependedFilePaths = {MainFile, "/a.h"}
    /\ Data("h2").dependedFilePaths = {MainFile, "/b.h"}
    /\ watchedFiles = Paths

\* C18: isProjectPartOutdated, as createUpdateInput records it in
\* parseNeeded, is true exactly when the project part's last change time
\* point is at or after the Document's; setDirtyIfProjectPartIsOutdated
\* then refreshes the reparse time point to the clock and sets
\* needsToBeReparsed, as setDirty does, and otherwise leaves the Document
\* as it is.
C18_OutdatedIffChangedAtOrAfterSync ==
    [][\A h \in Handles :
          /\ Ran({"createUpdateInput"}, h)
             => inflight'[handles[h]].parseNeeded =
                    (projectPartChange >= Data(h).lastProjectPartChangeTimePoint)
          /\ Ran({"setDirtyIfProjectPartIsOutdated"}, h)
             => IF projectPartChange >= Data(h).lastProjectPartChangeTimePoint
                THEN store'[handles[h]] =
                         [Data(h) EXCEPT !.needsToBeReparsedChangeTimePoint = now,
                                         !.needsToBeReparsed = TRUE]
                ELSE store'[handles[h]] = Data(h)]_vars

\* The project part changed at the very time point the Document was last
\* synced to, later than its construction, and the call has marked the
\* Document dirty.
C18_Witness ==
    \E h \in Handles :
        /\ Returned({"setDirtyIfProjectPartIsOutdated"}, h)
        /\ projectPartChange = Data(h).lastProjectPartChangeTimePoint
        /\ projectPartChange = MaxTime
        /\ Data(h).needsToBeReparsed
        /\ Data(h).needsToBeReparsedChangeTimePoint = now

\* C19: dependedFilePaths through a non-null handle throws
\* DocumentFileDoesNotExistException exactly when the Document's file is
\* not on the disk, and changes neither the Document nor the collection,
\* which still holds the Document it held; a remove then returns normally
\* and leaves no Document for the key.
C19_DependedFilePathsThrowsWhenFileIsGone ==
    [][/\ \A h \in Handles :
            (last'.op = "dependedFilePaths" /\ last'.handle = h /\ ~IsNull(h))
            => /\ last'.outcome =
                      IF Data(h).filePath \in disk
                      THEN "ok" ELSE "DocumentFileDoesNotExistException"
               /\ UNCHANGED <<store, documents, handles, watchedFiles,
                              inflight, markedSinceBuilt, disk>>
       /\ (last'.op = "remove" /\ last.op = "dependedFilePaths")
          => /\ last'.outcome = "ok"
             /\ ~\E o \in documents' :
                    /\ store'[o].filePath = last'.path
                    /\ store'[o].projectPartId = last'.projectPartId]_vars

\* dependedFilePaths has thrown for a dirty Document of the collection whose
\* file was deleted.
C19_Witness ==
    \E h \in Handles :
        /\ last.op = "dependedFilePaths"
        /\ last.handle = h
        /\ last.outcome = "DocumentFileDoesNotExistException"
        /\ ~IsNull(h)
        /\ handles[h] \in documents
        /\ Data(h).filePath \notin disk
        /\ Data(h).needsToBeReparsed

\* The calls that start an update of a Document.
StartingOps == {"createUpdateInput", "parse", "reparse"}

\* C20: an update of a Document (an input built for a job, a parse, a
\* reparse) starts only while no input of that Document is in flight, so
\* that at most one is in flight per Document; it leaves the inputs in
\* flight for the other Documents as they are.
C20_OneUpdateInFlightPerDocument ==
    [][\A h \in Handles :
          Ran(StartingOps, h)
          => /\ ~inflight[handles[h]].built
             /\ \A o \in ObjIds \ {handles[h]} : inflight'[o] = inflight[o]
             /\ inflight'[handles[h]].built = (last'.op = "createUpdateInput")]_vars

\* The Documents of the two project parts each have an input in flight.
C20_Witness ==
    /\ ~IsNull("h1")
    /\ ~IsNull("h2")
    /\ Data("h1").projectPartId # Data("h2").projectPartId
    /\ {handles["h1"], handles["h2"]} \subseteq documents
    /\ inflight[handles["h1"]].built
    /\ inflight[handles["h2"]].built
    /\ last.op = "createUpdateInput"

\* C21: the comparison of two non-null Documents is true exactly when their
\* file paths are equal and their project part ids are equal, whatever
\* their revisions, flags, dependencies and time points are.
C21_EqualIffSameFilePathAndProjectPart ==
    (last.op = "==" /\ ~IsNull("h1") /\ ~IsNull("h2"))
    => last.outcome =
           IF /\ Data("h1").filePath = Data("h2").filePath
              /\ Data("h1").projectPartId = Data("h2").projectPartId
           THEN "true" ELSE "false"

\* Two Documents of one key that differ in revision, flags, dependencies
\* and both time points, on two backing states, have compared equal.
C21_Witness ==
    /\ last.op = "=="
    /\ last.outcome = "true"
    /\ ~IsNull("h1")
    /\ ~IsNull("h2")
    /\ handles["h1"] # handles["h2"]
    /\ Data("h1").documentRevision # Data("h2").documentRevision
    /\ Data("h1").needsToBeReparsed # Data("h2").needsToBeReparsed
    /\ Data("h1").hasParseOrReparseFailed # Data("h2").hasParseOrReparseFailed
    /\ Data("h1").dependedFilePaths # Data("h2").dependedFilePaths
    /\ Data("h1").needsToBeReparsedChangeTimePoint #
           Data("h2").needsToBeReparsedChangeTimePoint
    /\ Data("h1").lastProjectPartChangeTimePoint #
           Data("h2").lastProjectPartChangeTimePoint

\* C22: incorporating a failed result sets hasParseOrReparseFailed, clears
\* needsToBeReparsed and changes nothing else: both time points, the
\* dependencies, the revision and the watched files are as before, the
\* handle still holds the Document and the collection holds what it held.
C22_FailedResultChangesOnlyTheFlags ==
    [][\A h \in Handles :
          (Ran(IncorporatingOps, h) /\ last'.result.hasParseOrReparseFailed)
          => /\ store'[handles[h]] =
                    [Data(h) EXCEPT !.hasParseOrReparseFailed = TRUE,
                                    !.needsToBeReparsed = FALSE]
             /\ watchedFiles' = watchedFiles
             /\ handles' = handles
             /\ handles'[h] # NullDoc
             /\ documents' = documents
             /\ store'[handles[h]].live]_vars

\* A failed result that carried a later time point and other dependencies
\* has been incorporated by a Document of the collection whose file is not
\* yet watched.
C22_Witness ==
    \E h \in Handles :
        /\ Returned(IncorporatingOps, h)
        /\ last.result.hasParseOrReparseFailed
        /\ last.result.parseTimePointIsSet
        /\ last.result.parseTimePoint > Data(h).lastProjectPartChangeTimePoint
        /\ last.result.dependedOnFilePaths # Data(h).dependedFilePaths
        /\ handles[h] \in documents
        /\ Data(h).hasParseOrReparseFailed
        /\ watchedFiles = {}

\* C23: incorporating a result that did not fail leaves the Document's
\* dependencies equal to the result's when the result has its parse time
\* point set or says a reparse happened, and as they were when it says
\* neither, whatever set it reports.
C23_DependenciesReplacedIffParsedOrReparsed ==
    [][\A h \in Handles :
          (Ran(IncorporatingOps, h) /\ ~last'.result.hasParseOrReparseFailed)
          => store'[handles[h]].dependedFilePaths =
                 IF last'.result.parseTimePointIsSet \/ last'.result.reparsed
                 THEN last'.result.dependedOnFilePaths
                 ELSE Data(h).dependedFilePaths]_vars

\* A result that did not fail, with neither a parse nor a reparse and no
\* dependencies, has been incorporated by a Document that depends on every
\* file.
C23_Witness ==
    \E h \in Handles :
        /\ Returned(IncorporatingOps, h)
        /\ ~last.result.hasParseOrReparseFailed
        /\ ~last.result.parseTimePointIsSet
        /\ ~last.result.reparsed
        /\ last.result.dependedOnFilePaths = {}
        /\ Data(h).dependedFilePaths = Paths

\* C24: incorporating a result that did not fail and has its parse time
\* point set makes that time point the Document's
\* lastProjectPartChangeTimePoint, so that the project part is then outdated
\* exactly when its last change is at or after it; a result without the
\* time point, and a failed one, leave lastProjectPartChangeTimePoint as it
\* was.
C24_SyncTimePointAdoptedFromResult ==
    [][\A h \in Handles :
          Ran(IncorporatingOps, h)
          => IF /\ ~last'.result.hasParseOrReparseFailed
                /\ last'.result.parseTimePointIsSet
             THEN /\ store'[handles[h]].lastProjectPartChangeTimePoint =
                         last'.result.parseTimePoint
                  /\ IsProjectPartOutdatedOf(store'[handles[h]]) =
                         (projectPartChange' >= last'.result.parseTimePoint)
             ELSE store'[handles[h]].lastProjectPartChangeTimePoint =
                      Data(h).lastProjectPartChangeTimePoint]_vars

\* A result parsed after the project part's last change has been
\* incorporated: the Document is synced to the later time point and its
\* project part is no longer outdated.
C24_Witness ==
    \E h \in Handles :
        /\ Returned(IncorporatingOps, h)
        /\ ~last.result.hasParseOrReparseFailed
        /\ last.result.parseTimePointIsSet
        /\ last.result.parseTimePoint = MaxTime
        /\ Data(h).lastProjectPartChangeTimePoint = MaxTime
        /\ projectPartChange < MaxTime
        /\ ~IsProjectPartOutdatedOf(Data(h))

\* C25: createUpdateInput changes no Document and nothing of the
\* collection: needsToBeReparsed, hasParseOrReparseFailed, both time points,
\* the dependencies, the revision and the watched files are after the call
\* what they were before it.
C25_CreateUpdateInputMutatesNothing ==
    [][\A h \in Handles :
          Ran({"createUpdateInput"}, h)
          => /\ store' = store
             /\ watchedFiles' = watchedFiles
             /\ documents' = documents
             /\ handles' = handles
             /\ inflight'[handles[h]].built]_vars

\* An input has been built for a dirty, failed Document of revision 1 that
\* depends on every file, none of them watched.
C25_Witness ==
    \E h \in Handles :
        /\ Returned({"createUpdateInput"}, h)
        /\ inflight[handles[h]].built
        /\ inflight[handles[h]].reparseNeeded
        /\ Data(h).needsToBeReparsed
        /\ Data(h).hasParseOrReparseFailed
        /\ Data(h).documentRevision = 1
        /\ Data(h).dependedFilePaths = {MainFile}
        /\ watchedFiles = Paths

\* C26: the update input built by createUpdateInput is a snapshot of the
\* moment it is built: parseNeeded is isProjectPartOutdated(), reparseNeeded
\* is needsToBeReparsed, its reparse time point is the Document's
\* needsToBeReparsedChangeTimePoint and its unsaved files are the
\* collection's unsavedFiles() of that moment; a setDirty after the input
\* was built (and a later change of the project part, of the unsaved files
\* or of the clock) leaves the input already built as it is.
C26_UpdateInputIsSnapshotAtBuildTime ==
    [][\A h \in Handles :
          /\ Ran({"createUpdateInput"}, h)
             => inflight'[handles[h]] =
                  [built |-> TRUE,
                   parseNeeded |->
                       (projectPartChange >=
                            Data(h).lastProjectPartChangeTimePoint),
                   reparseNeeded |-> Data(h).needsToBeReparsed,
                   needsToBeReparsedChangeTimePoint |->
                       Data(h).needsToBeReparsedChangeTimePoint,
                   unsavedFiles |-> unsavedFiles,
                   builtAt |-> now]
          /\ last'.op \in {"setDirty", "setDirtyIfProjectPartIsOutdated",
                           "tick", "projectPartChanged",
                           "unsavedFilesChanged"}
             => inflight' = inflight]_vars

\* An input was built at time 1 from a clean Document whose project part
\* was not outdated and while no file was unsaved; since then the main file
\* got unsaved content, the project part changed and the Document has just
\* been marked dirty at a later time: the input still says what was true
\* when it was built.
C26_Witness ==
    \E h \in Handles :
        /\ Returned({"setDirty"}, h)
        /\ inflight[handles[h]].built
        /\ ~inflight[handles[h]].reparseNeeded
        /\ ~inflight[handles[h]].parseNeeded
        /\ inflight[handles[h]].unsavedFiles = {}
        /\ unsavedFiles = {MainFile}
        /\ Data(h).needsToBeReparsed
        /\ IsProjectPartOutdatedOf(Data(h))
        /\ Data(h).needsToBeReparsedChangeTimePoint >
               inflight[handles[h]].needsToBeReparsedChangeTimePoint

\* C27: in every reachable state the dependencies of a live Document
\* contain the Document's own file path: the constructor puts it there and
\* every incorporated parse or reparse result keeps it there.
C27_DependenciesContainOwnFilePath ==
    \A h \in Handles :
        ~IsNull(h) => Data(h).filePath \in Data(h).dependedFilePaths

\* A result that parsed has just been incorporated and replaced the
\* dependencies by the file and both headers.
C27_Witness ==
    \E h \in Handles :
        /\ Returned(IncorporatingOps, h)
        /\ ~last.result.hasParseOrReparseFailed
        /\ last.result.parseTimePointIsSet
        /\ last.result.dependedOnFilePaths = Paths
        /\ Data(h).dependedFilePaths = Paths
        /\ Data(h).filePath = MainFile

\* C28 as stated: the stored revision of a Document never decreases,
\* whatever revisions setDocumentRevision is called with.
C28_RevisionNeverDecreases ==
    [][\A h \in Handles :
          ~IsNull(h) /\ handles'[h] = handles[h]
          => store'[handles[h]].documentRevision >= Data(h).documentRevision]_vars

\* C28: the revision is the caller's: setDocumentRevision stores exactly the
\* revision it is called with, lower than the stored one or not, and no
\* other call on the Document changes the revision; so the stored revision
\* never decreases over calls with non-decreasing revisions.
C28_RevisionIsTheOneLastSet ==
    [][\A h \in Handles :
          ~IsNull(h) /\ handles'[h] = handles[h]
          => IF Ran({"setDocumentRevision"}, h)
             THEN /\ store'[handles[h]].documentRevision = last'.revision
                  /\ last'.revision >= Data(h).documentRevision
                     => store'[handles[h]].documentRevision >=
                            Data(h).documentRevision
             ELSE store'[handles[h]].documentRevision =
                      Data(h).documentRevision]_vars

\* setDocumentRevision has just been called with revision 0 on a Document
\* whose revision was MaxRevision: the stored revision is 0.
C28_Witness ==
    \E h \in Handles :
        /\ Returned({"setDocumentRevision"}, h)
        /\ last.revisionBefore = MaxRevision
        /\ last.revision = 0
        /\ Data(h).documentRevision = 0

\* The calls of C29 that change the backing state.
SharedMutationOps ==
    {"setDirty", "setDocumentRevision", "incorporateUpdaterResult"}

\* C29: the copies of a Document handle share one backing state.  A copy
\* refers to the very backing state of the handle it was copied from; a
\* setDirty, setDocumentRevision or incorporated result through one handle
\* detaches no handle, so every copy reads the changed state; reset() and
\* being moved from make that one handle null, leave every other copy
\* (the handle moved to apart) referring to what it referred to, and leave
\* the backing state of the remaining copies as it was.
C29_CopiesShareOneBackingState ==
    [][\A h \in Handles :
          /\ last'.op = "assign" /\ last'.handle = h
             => /\ \E other \in Handles : handles'[h] = handles[other]
                /\ \A k \in Handles \ {h} : handles'[k] = handles[k]
          /\ Ran(SharedMutationOps, h)
             => /\ handles' = handles
                /\ documents' = documents
                /\ \A k \in Handles :
                       handles[k] = handles[h]
                       => store'[handles'[k]] = store'[handles[h]]
          /\ last'.op = "reset" /\ last'.handle = h
             => /\ handles'[h] = NullDoc
                /\ \A k \in Handles \ {h} :
                       /\ handles'[k] = handles[k]
                       /\ ~IsNull(k) => store'[handles[k]] = Data(k)
          /\ last'.op = "move" /\ last'.handle = h
             => /\ handles'[h] = NullDoc
                /\ \E k \in Handles \ {h} : handles'[k] = handles[h]
                /\ documents' = documents
                /\ ~IsNull(h) => store'[handles[h]] = Data(h)]_vars

\* Handle h2 is a copy of h1; the Document was given revision MaxRevision
\* and marked dirty, and h1 has just been reset: h1 is null, h2 is not and
\* reads the dirty Document of revision MaxRevision.
C29_Witness ==
    /\ last.op = "reset"
    /\ last.handle = "h1"
    /\ ~last.wasNull
    /\ IsNull("h1")
    /\ ~IsNull("h2")
    /\ Data("h2").needsToBeReparsed
    /\ Data("h2").documentRevision = MaxRevision
    /\ Data("h2").dependedFilePaths = Paths

\* C30 as stated: the translation unit and index of a Document are released
\* in the very remove that drops it from the collection, a caller holding a
\* copied handle or not, and nothing refers to them once released.
C30_ReleasedAsPartOfRemoval ==
    [][\A o \in ObjIds :
          /\ (o \in documents /\ o \notin documents') => ~store'[o].live
          /\ (\E h \in Handles : handles'[h] = o) => store'[o].live]_vars

\* C30: the translation unit and index of a Document are released exactly
\* once and never used afterwards: they are released in the step that takes
\* the last reference to the backing state away, whether that is the remove
\* or a later reset or reassignment of a copied handle, so a remove releases
\* them only if no caller holds a copied handle; what is referenced by a
\* handle or by the collection is never released, and a released backing
\* state is not released again or brought back.
C30_ReleasedOnceWithLastReference ==
    [][\A o \in ObjIds :
          /\ store'[o].live <=> Referenced(o, documents', handles')
          /\ (store[o].live /\ ~store'[o].live)
             => /\ Referenced(o, documents, handles)
                /\ last'.op \in {"remove", "reset", "assign", "findOrCreate"}
          /\ (~store[o].live /\ store'[o].live)
             => /\ last'.op = "findOrCreate"
                /\ o \in documents'
          /\ (o \in documents /\ o \notin documents')
             => /\ last'.op = "remove"
                /\ ~store'[o].live <=> ~\E h \in Handles : handles[h] = o]_vars

\* The collection has just removed a dirty Document that handle h1 still
\* refers to: the backing state is alive outside the collection.
C30_Witness ==
    /\ last.op = "remove"
    /\ ~IsNull("h1")
    /\ handles["h1"] \notin documents
    /\ Data("h1").live
    /\ Data("h1").needsToBeReparsed
    /\ handles["h2"] = handles["h1"]

\* A Document that needs no reparse and has not failed.
Clean(h) ==
    /\ ~IsNull(h)
    /\ ~Data(h).needsToBeReparsed
    /\ ~Data(h).hasParseOrReparseFailed

\* A step that marks the Document dirty, or a parse or reparse whose result
\* failed.
MarkedOrFailed ==
    \/ last'.op \in {"setDirty", "setDirtyIfProjectPartIsOutdated"}
    \/ /\ last'.op \in {"parse", "reparse"}
       /\ last'.result.hasParseOrReparseFailed

\* C31: while the owner keeps issuing reparses whose results are reparses
\* that did not fail, a Document that is marked dirty no more (and gets no
\* failed result any more) eventually is Clean, and a Clean Document stays
\* Clean until it is marked dirty or a result fails.
C31_EventuallyCleanAndStaysClean ==
    /\ (<>[][~MarkedOrFailed]_vars)
       => <>[](\A h \in OwnerHandles : ~IsNull(h) => Clean(h))
    /\ [][\A h \in OwnerHandles :
             (Clean(h) /\ ~Clean(h)') => MarkedOrFailed]_vars

\* A Document marked dirty at time MaxTime has just been reparsed with a
\* result that did not fail: it is Clean.
C31_Witness ==
    \E h \in OwnerHandles :
        /\ Returned({"reparse"}, h)
        /\ last.result.reparsed
        /\ Data(h).needsToBeReparsedChangeTimePoint = MaxTime
        /\ Clean(h)

\* The calls that go through setDirty.
MarkingOps ==
    {"setDirty", "setDirtyIfProjectPartIsOutdated", "setDirtyIfDependencyIsMet"}

\* C32: needsToBeReparsedChangeTimePoint is written by setDirty only,
\* called directly or through setDirtyIfProjectPartIsOutdated or
\* setDirtyIfDependencyIsMet: incorporateUpdaterResult, parse, reparse,
\* createUpdateInput and the setters of the revision, of the two editor
\* flags and of the failure flag leave it as it is, and over any sequence of
\* calls it never decreases.
C32_TimePointWrittenOnlyBySetDirty ==
    [][\A h \in Handles :
          (~IsNull(h) /\ handles'[h] = handles[h])
          => /\ store'[handles[h]].needsToBeReparsedChangeTimePoint >=
                    Data(h).needsToBeReparsedChangeTimePoint
             /\ store'[handles[h]].needsToBeReparsedChangeTimePoint #
                    Data(h).needsToBeReparsedChangeTimePoint
                => Ran(MarkingOps, h)]_vars

\* A reparse result made for the time point 1 has just been incorporated
\* into a Document of revision MaxRevision, visible in and used by the
\* current editor, that was marked dirty at MaxTime: the Document's time
\* point is still MaxTime.
C32_Witness ==
    \E h \in Handles :
        /\ Returned({"incorporateUpdaterResult"}, h)
        /\ last.result.reparsed
        /\ last.result.needsToBeReparsedChangeTimePoint = 1
        /\ Data(h).needsToBeReparsedChangeTimePoint = MaxTime
        /\ Data(h).documentRevision = MaxRevision
        /\ Data(h).isVisibleInEditor
        /\ Data(h).isUsedByCurrentEditor

\* The passes whose function is running.
RunningPasses == {p \in PassIds : passes[p].state = "running"}

\* Pass p is the watched one, has returned with a result and was not
\* cancelled.
Completed(p) ==
    /\ p = registeringWatcher
    /\ passes[p].state = "finished"
    /\ passes[p].hasResult
    /\ ~passes[p].canceled

\* C33: at most one registration pass runs at a time: registerMimeTypes()
\* called while a pass runs starts no pass, sets m_hasQueuedRegistration and
\* cancels the pass; the register is given, and mimeTypesRegistered is
\* emitted for, only the result of the pass the watcher watches, returned
\* and not cancelled: never that of a cancelled or superseded pass.
C33_OnePassAtATime ==
    [][/\ Cardinality(RunningPasses') <= 1
       /\ (requests'.made # requests.made /\ IsRunning)
          => /\ Started' = Started
             /\ registeringWatcher' = registeringWatcher
             /\ hasQueuedRegistration'
             /\ passes'[registeringWatcher].canceled
       /\ \A p \in PassIds :
             (register' = p /\ register # p) => Completed(p)
       /\ mimeTypesRegistered' # mimeTypesRegistered
          => /\ mimeTypesRegistered' =
                    Append(mimeTypesRegistered, registeringWatcher)
             /\ Completed(registeringWatcher)
             /\ register' = registeringWatcher]_vars

\* The second registerMimeTypes() came while the first pass ran: the pass
\* is cancelled and still the only one, and the registration is queued.
C33_Witness ==
    /\ requests.made = 2
    /\ Started = {1}
    /\ passes[1].state = "running"
    /\ passes[1].canceled
    /\ hasQueuedRegistration
    /\ register = 0
    /\ mimeTypesRegistered = <<>>

\* No pass runs and no finished() awaits delivery.
Quiet == RunningPasses = {} /\ ~finishedPosted

\* C34: after finitely many registerMimeTypes() calls, whatever passes
\* returned in between, the registration comes to rest: no pass runs,
\* nothing is queued, and the pass watched was started by or after the last
\* call, returned without being cancelled, has its result in the register
\* and was the last mimeTypesRegistered was emitted for.
C34_QueuedRegistrationIsNotDropped ==
    <>[](/\ Quiet
         /\ ~hasQueuedRegistration
         /\ requests.made > 0
            => /\ registeringWatcher > requests.passesBefore
               /\ Completed(registeringWatcher)
               /\ register = registeringWatcher
               /\ mimeTypesRegistered # <<>>
               /\ mimeTypesRegistered[Len(mimeTypesRegistered)] =
                      registeringWatcher)

\* Three calls: the second cancelled the first pass, the third came after
\* that pass had returned and before its finished() was delivered and
\* started the second pass, whose finished() started the third for the
\* queued call.  The registration rests with the third pass in the
\* register; the result of the second was not used.
C34_Witness ==
    /\ Quiet
    /\ requests.made = 3
    /\ passes[1].canceled
    /\ passes[2].hasResult /\ ~passes[2].canceled
    /\ registeringWatcher = 3
    /\ register = 3
    /\ mimeTypesRegistered = <<3>>
    /\ ~hasQueuedRegistration

\* The place of the definition file `id` in the sequence `considered`
\* (0: it is not in it).
PlaceOf(considered, file) ==
    IF \E i \in 1..Len(considered) : considered[i].file = file
    THEN CHOOSE i \in 1..Len(considered) : considered[i].file = file
    ELSE 0

\* The i-th definition considered is the first of its name.
FirstOfName(considered, i) ==
    \A j \in 1..(i - 1) : considered[j].name # considered[i].name

\* The i-th definition considered is the first one accepted that lists the
\* MIME type t.
FirstAcceptedWith(considered, i, t) ==
    /\ FirstOfName(considered, i)
    /\ t \in considered[i].mimeTypes
    /\ \A j \in 1..(i - 1) :
           ~(FirstOfName(considered, j) /\ t \in considered[j].mimeTypes)

\* C35: a pass that reports has considered the definitions of a path by
\* descending priority and the paths in their order (a path with an empty
\* name and a file that cannot be opened not at all), and the first
\* definition considered wins: the names mapped are the names considered,
\* each to the id of the first definition considered that carries it, the
\* MIME types mapped are those of the definitions that were the first of
\* their name, each to the id of the first of these that lists it, and a
\* definition whose name was taken registers no MIME type.
C35_FirstDefinitionConsideredWins ==
    processed.reported =>
        LET considered == processed.considered
            places == 1..Len(considered)
        IN  /\ \A k, l \in 1..Len(definitionsPaths) :
                 \A i \in 1..Len(definitionsPaths[k].metaData),
                    j \in 1..Len(definitionsPaths[l].metaData) :
                     LET m == definitionsPaths[k].metaData[i]
                         n == definitionsPaths[l].metaData[j]
                         p == PlaceOf(considered, m.file)
                         q == PlaceOf(considered, n.file)
                     IN  /\ p # 0 <=> (definitionsPaths[k].path # "" /\ ~m.isNull)
                         /\ p # 0 => considered[p] = m
                         /\ (p # 0 /\ q # 0 /\ k < l) => p < q
                         /\ (p # 0 /\ q # 0 /\ k = l /\ m.priority > n.priority)
                            => p < q
            /\ DOMAIN processed.idByName = {considered[i].name : i \in places}
            /\ \A n \in DOMAIN processed.idByName :
                 \E i \in places :
                    /\ considered[i].name = n
                    /\ FirstOfName(considered, i)
                    /\ processed.idByName[n] = considered[i].id
            /\ DOMAIN processed.idByMimeType =
                  UNION {considered[i].mimeTypes :
                           i \in {j \in places : FirstOfName(considered, j)}}
            /\ \A t \in DOMAIN processed.idByMimeType :
                 \E i \in places :
                    /\ FirstAcceptedWith(considered, i, t)
                    /\ processed.idByMimeType[t] = considered[i].id
            /\ \A t \in processed.newMimeTypes :
                 /\ t \notin knownMimeTypes
                 /\ t \in DOMAIN processed.idByMimeType

\* The fallback definition has the name of the second definition of the
\* user's path and a MIME type of its own, the second definition of the
\* user's path has the higher priority and shares a MIME type with the
\* first: the second wins that type, the fallback registers nothing.
C35_Witness ==
    /\ processed.reported
    /\ Len(processed.considered) = 3
    /\ processed.considered[1].id = "/user/b.xml"
    /\ processed.considered[1].name = "C"
    /\ processed.considered[1].mimeTypes = {"text/x-c"}
    /\ processed.considered[2].name = "Objective C"
    /\ processed.considered[2].mimeTypes = MimeTypeNames
    /\ processed.considered[3].name = "C"
    /\ processed.considered[3].mimeTypes = {"text/x-objc"}
    /\ processed.idByName = [n \in DefinitionNames |->
                                IF n = "C" THEN "/user/b.xml" ELSE "/user/a.xml"]
    /\ processed.idByMimeType = [t \in MimeTypeNames |->
                                    IF t = "text/x-c" THEN "/user/b.xml" ELSE "/user/a.xml"]
    /\ processed.newMimeTypes = MimeTypeNames

\* The number of occurrences of x in a list.
Occurrences(list, x) == Cardinality({n \in 1..Len(list) : list[n] = x})

\* The projects recorded on a kit.
ProjectsOn(kit) == Value(kit, TEMPORARY_OF_PROJECTS, <<>>)

ProjectPaths == {ProjectPathOf[i] : i \in ImporterIds}

\* What removeProject by importer i does to kit k in a step: one occurrence
\* of the importer's project (if there is one) leaves a temporary kit's
\* list, every other occurrence stays in its order, and the kit is
\* deregistered exactly when nothing is left; any other kit is untouched.
ProjectRemoved(i, k) ==
    LET p == ProjectPathOf[i]
        before == ProjectsOn(kits[k])
        taken == IF Occurrences(before, p) > 0 THEN 1 ELSE 0
    IN  IF HasValue(kits[k], KIT_IS_TEMPORARY)
        THEN /\ kits'[k].registered <=> Len(before) - taken > 0
             /\ kits'[k].registered =>
                   /\ Len(ProjectsOn(kits'[k])) = Len(before) - taken
                   /\ \A q \in ProjectPaths :
                         Occurrences(ProjectsOn(kits'[k]), q) =
                             Occurrences(before, q) - (IF q = p THEN taken ELSE 0)
                   /\ SelectSeq(ProjectsOn(kits'[k]), LAMBDA e : e # p) =
                          SelectSeq(before, LAMBDA e : e # p)
                   /\ kits'[k] = SetValue(kits[k], TEMPORARY_OF_PROJECTS, ProjectsOn(kits'[k]))
        ELSE kits'[k] = kits[k]

\* C36: the projects of a temporary kit are a reference count. addProject
\* appends one occurrence of the importer's project path to a temporary
\* kit's list and keeps the kit registered; removeProject (also when the
\* importer's destructor runs it on every registered kit) takes one
\* occurrence off and deregisters the kit exactly when the list is empty
\* afterwards, so never while another project or another occurrence is
\* recorded; neither changes a kit that is not temporary, or another kit.
C36_ProjectsAreAReferenceCount ==
    [][\A i \in ImporterIds :
          /\ \A k \in KitIds :
                /\ lastKitCall' = KitCall("addProject", i, k) =>
                      /\ \A o \in KitIds \ {k} : kits'[o] = kits[o]
                      /\ IF HasValue(kits[k], KIT_IS_TEMPORARY)
                         THEN kits'[k] = SetValue(kits[k], TEMPORARY_OF_PROJECTS,
                                             ProjectsOn(kits[k]) \o <<ProjectPathOf[i]>>)
                         ELSE kits'[k] = kits[k]
                /\ lastKitCall' = KitCall("removeProject", i, k) =>
                      /\ \A o \in KitIds \ {k} : kits'[o] = kits[o]
                      /\ ProjectRemoved(i, k)
                      /\ ~kits'[k].registered =>
                            \A q \in ProjectPaths :
                               Occurrences(ProjectsOn(kits[k]), q) =
                                   (IF ProjectsOn(kits[k]) = <<q>> /\ q = ProjectPathOf[i]
                                    THEN 1 ELSE 0)
          /\ lastKitCall' = KitCall("~ProjectImporter", i, "") =>
                \A k \in KitIds :
                   IF kits[k].registered THEN ProjectRemoved(i, k) ELSE kits'[k] = kits[k]
    ]_vars

\* removeProject took one of two occurrences of a project off a temporary
\* kit, which stays registered for the other.
C36_Witness ==
    /\ lastKitCall = KitCall("removeProject", "i1", "k2")
    /\ kits["k2"].registered
    /\ HasValue(kits["k2"], KIT_IS_TEMPORARY)
    /\ ProjectsOn(kits["k2"]) = <<"/p1/p1.pro">>
    /\ kits["k1"] = UserKit(<<"Desktop">>)

\* The keys the importer keeps in a temporary kit.
TemporaryKeys == {KIT_IS_TEMPORARY, TEMPORARY_OF_PROJECTS, KIT_TEMPORARY_NAME, KIT_FINAL_NAME}

\* The keys the handlers of an importer keep temporary information under.
HandlerKeys(i) == {FullId(temporaryHandlers[i][n]) : n \in 1..Len(temporaryHandlers[i])}

\* C37: after makePersistent(k) the kit holds none of the temporary flag,
\* the project list, the temporary name and the final name, and from then
\* on it stays registered and without them whatever removeProject,
\* addProject or importer destruction follows; makePersistent gives the kit
\* its final name exactly when its display name was still the generated
\* temporary name, and otherwise leaves the name, and leaves every other
\* value of the kit; in any other kit it touches the keys of the importer's
\* handlers only; on a kit that is not temporary it changes nothing, in no
\* kit.
C37_PersistentKitsStay ==
    /\ [][\A i \in ImporterIds, k \in KitIds :
             (lastKitCall'.op = "makePersistent" /\ lastKitCall'.importer = i
                 /\ lastKitCall'.kit = k) =>
                IF HasValue(kits[k], KIT_IS_TEMPORARY)
                THEN /\ kits'[k].registered
                     /\ DOMAIN kits'[k].values = DOMAIN kits[k].values \ TemporaryKeys
                     /\ \A key \in DOMAIN kits'[k].values :
                           kits'[k].values[key] = kits[k].values[key]
                     /\ kits'[k].displayName =
                           IF kits[k].displayName = kits[k].values[KIT_TEMPORARY_NAME]
                           THEN kits[k].values[KIT_FINAL_NAME]
                           ELSE kits[k].displayName
                     /\ \A o \in KitIds \ {k} :
                           /\ kits'[o].created = kits[o].created
                           /\ kits'[o].registered = kits[o].registered
                           /\ kits'[o].displayName = kits[o].displayName
                           /\ \A key \in (DOMAIN kits[o].values \cup DOMAIN kits'[o].values)
                                          \ HandlerKeys(i) :
                                 /\ key \in DOMAIN kits[o].values \cap DOMAIN kits'[o].values
                                 /\ kits'[o].values[key] = kits[o].values[key]
                ELSE /\ kits' = kits
                     /\ lastKitCall'.persisted = <<>>
         ]_vars
    /\ \A k \in KitIds :
          []((lastKitCall.op = "makePersistent" /\ lastKitCall.kit = k) =>
                [](/\ kits[k].registered
                   /\ DOMAIN kits[k].values \cap TemporaryKeys = {}))

\* An importer was destroyed after a kit it had created, recorded its
\* project on and kept temporary data of a handler in was made persistent
\* under its final name: the kit is still registered, with the data and
\* without the importer's keys, and the user's kit has the handler's key.
C37_Witness ==
    /\ lastKitCall.op = "~ProjectImporter"
    /\ importers = {}
    /\ kits["k2"].created /\ kits["k2"].registered
    /\ DOMAIN kits["k2"].values = {FullId("QtSupport")}
    /\ kits["k2"].values[FullId("QtSupport")] = <<"qt1">>
    /\ kits["k2"].displayName = <<"Imported Kit">>
    /\ DOMAIN kits["k1"].values = {FullId("QtSupport")}
    /\ kits["k1"].values[FullId("QtSupport")] = <<>>

\* The rounds a definition was scheduled for download in.
RoundsOf(n) == {r \in 1..Len(scheduled) : n \in scheduled[r]}

\* C38: a referenced definition name is scheduled for download at most once
\* over all rounds, the first included, and never if it was installed when
\* the downloads began.
C38_ReferencedDefinitionScheduledOnce ==
    \A r \in 2..Len(scheduled) : \A n \in scheduled[r] :
        /\ RoundsOf(n) = {r}
        /\ n \notin multiDownloader.installed

\* Among the follow-up rounds a definition is scheduled at most once, never
\* if it was installed at the start, and only if it is available; and
\* finished() is emitted at most once, by the round that deletes the
\* downloader.
FollowUpRoundsScheduleOnce ==
    /\ \A r \in 2..Len(scheduled) : \A n \in scheduled[r] :
          /\ RoundsOf(n) \subseteq {1, r}
          /\ n \in AvailableDefinitions \ multiDownloader.installed
    /\ finishedEmitted = (IF multiDownloader.state = "deleted" THEN 1 ELSE 0)
    /\ Len(scheduled) <= Cardinality(AvailableDefinitions) + 1

\* The chain of rounds ends, every error dialog being closed: a downloader
\* that started is deleted again.
DownloadRoundsEnd ==
    (multiDownloader.state = "downloading") ~> (multiDownloader.state = "deleted")

\* The buttons that are checked.
CheckedButtons == {b \in PaneIds : checked[b]}

\* C39: as long as showPane is called by button clicks only, at most one
\* pane button is checked at any time. A click that checks a button
\* unchecks every other button, makes the button's pane the current one of
\* the stacked widget and shows the stacked widget (visible whenever the
\* window is); a click that unchecks a button hides the stacked widget and
\* emits visibilityChanged(false), and with showPane called by clicks only
\* no button is checked then; and showAlert starts an alert exactly when
\* the pane's button is not checked.
C39_AtMostOnePaneButtonChecked ==
    /\ ~shownByCall => Cardinality(CheckedButtons) <= 1
    /\ [][/\ ~shownByCall' => Cardinality(CheckedButtons') <= 1
          /\ \A b \in PaneIds :
                /\ (lastPaneCall'.op = "buttonClicked" /\ lastPaneCall'.index = b
                        /\ lastPaneCall'.para) =>
                      /\ ~checked[b]
                      /\ CheckedButtons' = {b}
                      /\ currentPane' = b
                      /\ ~stackedHidden'
                      /\ windowVisible => StackedIsVisible'
                /\ (lastPaneCall'.op = "buttonClicked" /\ lastPaneCall'.index = b
                        /\ ~lastPaneCall'.para) =>
                      /\ checked[b]
                      /\ ~checked'[b]
                      /\ ~shownByCall' => CheckedButtons' = {}
                      /\ stackedHidden' /\ ~StackedIsVisible'
                      /\ lastPaneCall'.emitted = <<"visibilityChanged(false)">>
                /\ (lastPaneCall'.op = "showAlert" /\ lastPaneCall'.index = b) =>
                      /\ lastPaneCall'.alertStarted <=> ~checked[b]
                      /\ lastPaneCall'.alertStarted =>
                            animator'[b] = [running |-> TRUE, animCounter |-> 0]
                      /\ ~lastPaneCall'.alertStarted => animator' = animator
                /\ animator'[b].running /\ ~animator[b].running => ~checked[b]
       ]_vars

\* The second button was clicked while the first was checked (the stacked
\* widget was visible already) and its own alert was running, showPane
\* having been called by clicks only: it alone is checked now, its alert is
\* stopped and its pane shows.
C39_Witness ==
    /\ ~shownByCall
    /\ lastPaneCall.op = "buttonClicked" /\ lastPaneCall.index = 2 /\ lastPaneCall.para
    /\ checked[2] /\ ~checked[1]
    /\ currentPane = 2
    /\ StackedIsVisible
    /\ lastPaneCall.emitted = <<>>
    /\ animator[2].animCounter = 3 /\ ~animator[2].running

\* showPane called on one pane and then on another leaves both buttons
\* checked.
ShowPaneKeepsOthersChecked ==
    /\ shownByCall
    /\ lastPaneCall.op = "showPane" /\ lastPaneCall.index = 2
    /\ CheckedButtons = {1, 2}
    /\ currentPane = 2

====
